---- MODULE Spec2Model ----
(***************************************************************************)
(* Lobby server (src/server/lobby_server.py) over the record store         *)
(* (src/server/db_server.py).                                              *)
(*                                                                         *)
(* The lobby runs on one asyncio event loop: the code between two          *)
(* suspension points runs atomically.  A suspension point is a store RPC   *)
(* (db_call opens a connection of its own), the wait for a child process,  *)
(* the supervisor's sleep and the spawn of the child.  A store RPC is two  *)
(* steps: the store's dispatch of the request (atomic: dispatch has no     *)
(* await) and, later, the resumption of the caller with the reply.  A      *)
(* send on a player socket (send_frame: write, write, drain) does not      *)
(* suspend while the transport is below its high-water mark and is part    *)
(* of the step that makes it.                                              *)
(***************************************************************************)
EXTENDS Integers, Sequences, FiniteSets, TLC

\* ---------------------------------------------------------------- bounds
NumConns == 3
NumPlayers == 3
MaxRooms == 2
MaxMatches == 2
MatchStarts == 1
MaxObjs == 3
MaxPosts == 2
MaxFrames == 3
MaxCalls == 3
MaxEvents == 2
MatchFrames == 2
MaxPlayersBound == 3
NumGamePorts == 2
MaxReady == 3
MaxUploads == 2
MaxSize == 2
NumVersions == 2
UpFrames == 3
MaxDownloads == 2
DlFrames == 4

MaxSends == 3
MaxReads == 2

\* framing.MAX_FRAME: the longest payload of a frame.
MAX_FRAME == 64 * 1024

\* lobby_server.MAX_B64_CHUNK: raw bytes per download chunk.
MAX_B64_CHUNK == 32 * 1024

GAME_PORT_MIN == 10000
GAME_PORT_MAX == GAME_PORT_MIN + NumGamePorts - 1

Conns == 1..NumConns
Players == 1..NumPlayers
RoomIds == 1..MaxRooms
Matches == 1..MaxMatches
Objs == 1..MaxObjs
GamePorts == GAME_PORT_MIN..GAME_PORT_MAX
\* The supervisor task of match k (asyncio.create_task(_watch_game(rid, proc))).
Watcher(k) == NumConns + k
Watchers == {Watcher(k) : k \in Matches}
\* The developer server's handler of a logged-in developer connection (a process of
\* its own, src/server/developer_server.py).
Dev == NumConns + MaxMatches + 1
Tasks == Conns \cup Watchers \cup {Dev}
\* Upload ids (secrets.token_hex(16): a fresh id for every session).
UploadIds == 1..MaxUploads
\* The version strings developers declare for the game.
UpVersions == 1..NumVersions
\* Download ids (secrets.token_hex(16)).
DownloadIds == 1..MaxDownloads

VARIABLES
  task,          \* per task: position in its handler and the handler's locals
  byWriter,      \* SESSIONS_BY_WRITER: connection -> player id of its session (0: none)
  byPid,         \* SESSIONS_BY_PLAYER_ID: player id -> connection of its session (0: none)
  sessRoom,      \* PlayerSession.room_id of the session object (connection, player)
  ROOMS,         \* ROOMS: room id -> RoomLive object (0: absent)
  heap,          \* the RoomLive objects
  nObj,          \* RoomLive objects constructed so far
  storeRoom,     \* store: table Room
  storeMembers,  \* store: table RoomMember, per room in joinedAt order
  nRoom,         \* store: last Room id (AUTOINCREMENT)
  matchLog,      \* store: table MatchLog
  delisted,      \* store: Game.delisted of the game
  reviews,       \* store: table Review of the game, the rating by player (0: no row)
  versions,      \* store: table GameVersion of the game, by version
  UPLOADS,       \* developer server: UPLOADS, upload id -> UploadSession
  nUpload,       \* developer server: upload sessions opened so far
  tmpFile,       \* files TMP_ROOT/<uploadId>.zip.part
  zipFile,       \* files UPLOAD_ROOT/<gameId>/<version>/package.zip
  extracted,     \* trees UPLOAD_ROOT/<gameId>/<version>/extracted
  DOWNLOADS,     \* lobby: DOWNLOADS, download id -> DownloadSession
  nDownload,     \* lobby: download sessions opened so far
  dlClient,      \* the player client of each connection: its ensure_downloaded loop
  wire,          \* the byte stream of one connection: all bytes written, end of stream
  sent,          \* history: the payloads send_frame has accepted for the stream
  writers,       \* the tasks that write to the stream, each in send_frame or not
  reader,        \* the task that reads the stream with recv_frame
  proc,          \* spawned game server processes
  nProc,         \* processes spawned so far
  nPost,         \* post_result frames received so far
  nFrames,       \* frames the clients may still send
  gv,            \* the published GameVersion: minPlayers, maxPlayers
  reply,         \* the reply frame sent by the last step
  pushed,        \* event frames pushed by the last step
  readyCnt,      \* history: game_ready frames pushed, per match and player
  curMatch,      \* history: the match last started in each room
  postHist,      \* history: the last post_result frame of each connection
  client         \* one player client (LobbyClient), its socket and its threads

sessVars == <<byWriter, byPid, sessRoom>>
cacheVars == <<ROOMS, heap, nObj>>
storeVars == <<storeRoom, storeMembers, nRoom, matchLog, delisted, reviews, versions>>
devVars == <<UPLOADS, nUpload, tmpFile, zipFile, extracted>>
dlVars == <<DOWNLOADS, nDownload, dlClient>>
wireVars == <<wire, sent, writers, reader, client>>
procVars == <<proc, nProc>>
envVars == <<nPost, nFrames, gv>>
vars == <<task, byWriter, byPid, sessRoom, ROOMS, heap, nObj, storeRoom, storeMembers,
          nRoom, matchLog, delisted, reviews, versions, UPLOADS, nUpload, tmpFile,
          zipFile, extracted, DOWNLOADS, nDownload, dlClient, wire, sent, writers, reader,
          proc, nProc, nPost, nFrames, gv, reply, pushed, readyCnt,
          curMatch, postHist, client>>

\* ---------------------------------------------------------------- values
NoObj == [host |-> 0, players |-> <<>>, status |-> "none", token |-> 0, port |-> 0, proc |-> 0]
NoRow == [host |-> 0, status |-> "none"]
NoProc == [st |-> "none", port |-> 0]
NoReply == [conn |-> 0, name |-> "none"]
\* late: the frame arrived for a room already finalized; run: its handler has not
\* returned; rows: MatchLog rows the store has written for it.
NoPost == [late |-> FALSE, run |-> FALSE, rows |-> 0]

\* ---- uploaded packages
\* What is wrong with a package: nothing; the bytes are no zip archive; an entry
\* is absolute or has a '..' part; no manifest.json at the package root; a
\* manifest parse_manifest rejects; the manifest names another gameId; the module
\* of an entrypoint is missing, or is a directory of the package.
Defects ==
  {"none", "not_zip", "unsafe_entry", "no_manifest", "bad_manifest", "other_game",
   "no_server", "server_dir", "no_client", "client_dir"}

\* The package files developers hold: the manifest of each declares `version`.
ZipFiles == {[defect |-> d, version |-> v] : d \in Defects, v \in UpVersions}

\* Bytes that are part of no package file.
NoZip == [defect |-> "junk", version |-> 0]

\* The content of package file z: one block (one unit of sizeBytes).
Bytes(z) == <<z>>

\* hashlib.sha256(bytes).hexdigest(): taken as free of collisions.
sha256(bytes) == [digest |-> bytes]

\* zipfile.ZipFile(path): the package the bytes are the archive of.
Unzip(bytes) == IF Len(bytes) = 1 THEN bytes[1] ELSE NoZip

NoFile == [exists |-> FALSE, bytes |-> <<>>]
NoTree == [exists |-> FALSE, zip |-> NoZip]
NoUpload ==
  [open |-> FALSE, version |-> 0, expected_size |-> 0, expected_sha256 |-> sha256(<<>>),
   received |-> 0, next_seq |-> 0, hasher |-> <<>>]
\* upload: history, the upload session that committed the row.
NoVersion ==
  [committed |-> FALSE, sizeBytes |-> 0, sha256 |-> sha256(<<>>), manifest |-> NoZip,
   tree |-> NoZip, upload |-> 0]
NoArgs == [id |-> 0, version |-> 0, size |-> 0, sha256 |-> sha256(<<>>), zip |-> NoZip]

\* ---- package bytes by offset
\* A file of n bytes is held as runs: bytes lo..hi-1 of the content named src.
Run(src, lo, hi) == [src |-> src, lo |-> lo, hi |-> hi]
Content(src, n) == IF n = 0 THEN <<>> ELSE <<Run(src, 0, n)>>

RECURSIVE ByteLen(_)
\* len(bytes)
ByteLen(bytes) ==
  IF bytes = <<>> THEN 0 ELSE (bytes[1].hi - bytes[1].lo) + ByteLen(Tail(bytes))

Min(a, b) == IF a <= b THEN a ELSE b
Max(a, b) == IF a >= b THEN a ELSE b

RECURSIVE Drop(_, _)
\* f.seek(offset): the bytes from `offset` on.
Drop(bytes, offset) ==
  IF bytes = <<>> THEN <<>>
  ELSE LET r == bytes[1]
           n == r.hi - r.lo
       IN IF offset >= n THEN Drop(Tail(bytes), offset - n)
          ELSE IF offset = 0 THEN bytes
          ELSE <<Run(r.src, r.lo + offset, r.hi)>> \o Tail(bytes)

RECURSIVE Take(_, _)
\* f.read(limit): at most `limit` bytes from the position.
Take(bytes, limit) ==
  IF bytes = <<>> \/ limit <= 0 THEN <<>>
  ELSE LET r == bytes[1]
           n == r.hi - r.lo
       IN IF limit >= n THEN <<r>> \o Take(Tail(bytes), limit - n)
          ELSE <<Run(r.src, r.lo, r.lo + limit)>>

\* f.write(chunk) at the end of a file: adjoining runs of one content are one run.
Write(bytes, chunk) ==
  IF chunk = <<>> THEN bytes
  ELSE IF bytes = <<>> THEN chunk
  ELSE LET a == bytes[Len(bytes)]
           b == chunk[1]
       IN IF a.src = b.src /\ a.hi = b.lo
          THEN SubSeq(bytes, 1, Len(bytes) - 1) \o <<Run(a.src, a.lo, b.hi)>> \o Tail(chunk)
          ELSE bytes \o chunk

\* base64.b64encode(chunk).decode("ascii"): four characters for every three bytes,
\* the last group padded.
b64encode(chunk) == [chars |-> 4 * ((ByteLen(chunk) + 2) \div 3), of |-> chunk]
\* base64.b64decode(text)
b64decode(text) == text.of

\* ---- common/framing.py
\* One byte of value b.
Lit(b) == Run(<<"byte", b>>, 0, 1)

\* The payload of the id-th frame handed to send_frame, n bytes long.
Payload(id, n) == Content(<<"frame", id>>, n)

\* HDR.pack(n), struct.Struct("!I"): four bytes, the most significant first.
HDR_pack(n) ==
  <<Lit((n \div 16777216) % 256), Lit((n \div 65536) % 256), Lit((n \div 256) % 256),
    Lit(n % 256)>>

\* The value of byte i of run r: a header byte, or a byte of a payload (its value
\* is not looked at anywhere but in a header read out of place).
ByteAt(r, i) == IF r.src[1] = "byte" THEN r.src[2] ELSE 97

RECURSIVE ByteValues(_)
ByteValues(bytes) ==
  IF bytes = <<>> THEN <<>>
  ELSE LET r == bytes[1] IN
       [i \in 1..(r.hi - r.lo) |-> ByteAt(r, r.lo + i - 1)] \o ByteValues(Tail(bytes))

\* HDR.unpack(hdr)
HDR_unpack(hdr) ==
  LET b == ByteValues(hdr) IN b[1] * 16777216 + b[2] * 65536 + b[3] * 256 + b[4]

\* recv_frame with a test that refuses a length of MAX_FRAME.
BadLength_mut(length) == length = 0 \/ length >= MAX_FRAME

\* recv_frame, line 54: the length field is refused.
BadLength(length) == length = 0 \/ length > MAX_FRAME

\* send_frame with an await between the write of the header and of the payload.
send_frame_mut(payload) ==
  IF payload = <<>> \/ ByteLen(payload) > MAX_FRAME THEN [raise |-> TRUE, writes |-> <<>>]
  ELSE [raise |-> FALSE, writes |-> <<HDR_pack(ByteLen(payload)), payload>>]

\* send_frame, lines 31-36: FramingError, or the bytes it hands to writer.write,
\* grouped by the awaits of the call: header and payload are written with no
\* await between them, then the call awaits writer.drain().
send_frame(payload) ==
  IF payload = <<>> \/ ByteLen(payload) > MAX_FRAME THEN [raise |-> TRUE, writes |-> <<>>]
  ELSE [raise |-> FALSE, writes |-> <<HDR_pack(ByteLen(payload)) \o payload>>]

\* What recv_frame returns or raises.
Returned(payload) == [kind |-> "payload", bytes |-> payload]
ReturnedNone == [kind |-> "None", bytes |-> <<>>]
RaisedFramingError == [kind |-> "FramingError", bytes |-> <<>>]

\* The tasks that write to the socket of connection 1: its own handler, the
\* handler of another connection that pushes an event, the match supervisor.
WireTasks == {1, 2, Watcher(1)}

\* No stream of a peer: the stream holds what send_frame writes.
NoPeer == [on |-> FALSE, n |-> 0, h |-> 0, m |-> 0]

\* A writer task outside send_frame; in send_frame: `writes` are the writes still
\* to come, the task is suspended; res: how its last call ended, of a payload of
\* n bytes.
NoWriter == [busy |-> FALSE, writes |-> <<>>, res |-> "none", n |-> 0]
\* recv_frame at the start of a header: pos bytes of the stream are consumed.
NewReader == [phase |-> "hdr", need |-> 4, buf |-> <<>>, pos |-> 0, reads |-> 0, out |-> <<>>]

NoDownload == [open |-> FALSE, version |-> 0, size_bytes |-> 0, sha256 |-> sha256(<<>>)]
\* The locals of ensure_downloaded: the downloadId, size and sha of the init reply,
\* the limit it asks for, its offset, the temp file it writes and `done`; n: the
\* chunks received, last: the length of the chunk last received.
NoClient ==
  [id |-> 0, size |-> 0, sha |-> sha256(<<>>), limit |-> 0, offset |-> 0, tmp_zip |-> <<>>,
   done |-> FALSE, n |-> 0, last |-> 0]

\* A task at rest.  pc: the place in the code; req: the store request in flight
\* ("none": no request); got: its reply has arrived; ctx: the caller of the running
\* subroutine; sp: the player id of the handler's `sess`; rid, live, players,
\* nh, af, reason, port, k: the handler's locals; ok, rhost, rstatus: the store's
\* reply; cl: the running _cleanup_connection ("logout": notify_client, "close":
\* the finally of handle); bad: the result payload has a startedAt, endedAt or
\* winner that int() rejects; fm: history, the match that was playing when a finisher
\* entered or a game_delist arrived; hd: history, the session dropped was the host of
\* a playing room; up: the locals of an upload handler; err: the error of the
\* value db_call returned when the store failed.
Rest(pc) ==
  [pc |-> pc, req |-> "none", got |-> FALSE, ctx |-> "none", sp |-> 0, rid |-> 0,
   live |-> 0, players |-> <<>>, nh |-> 0, af |-> FALSE, reason |-> "none",
   ok |-> FALSE, rhost |-> 0, rstatus |-> "none", fm |-> 0, cl |-> "none",
   port |-> 0, k |-> 0, bad |-> FALSE, hd |-> FALSE, up |-> NoArgs, err |-> "none"]

SeqToSet(s) == {s[i] : i \in 1..Len(s)}
Without(s, x) == SelectSeq(s, LAMBDA u : u # x)

RECURSIVE SortedSeq(_)
\* sorted(set(...)) of line 506: the ids in ascending order.
SortedSeq(S) ==
  IF S = {} THEN <<>>
  ELSE LET m == CHOOSE x \in S : \A y \in S : x <= y
       IN <<m>> \o SortedSeq(S \ {m})

\* ---------------------------------------------------------------- store
\* Room.get: the row joined with its members ORDER BY joinedAt ASC.
room_get(r) ==
  IF storeRoom[r] = NoRow
  THEN [ok |-> FALSE, host |-> 0, status |-> "none", players |-> <<>>]
  ELSE [ok |-> TRUE, host |-> storeRoom[r].host, status |-> storeRoom[r].status,
        players |-> storeMembers[r]]

\* Room.add_member: INSERT OR IGNORE INTO RoomMember; the Room row is not looked at.
add_member(r, p) ==
  IF p \in SeqToSet(storeMembers[r]) THEN storeMembers
  ELSE [storeMembers EXCEPT ![r] = Append(@, p)]

\* Room.remove_member: DELETE FROM RoomMember.
remove_member(r, p) == [storeMembers EXCEPT ![r] = Without(@, p)]

\* Room.set_status, Room.set_host: UPDATE Room ... WHERE id=?, no row: no effect.
set_status(r, s) ==
  IF storeRoom[r] = NoRow THEN storeRoom ELSE [storeRoom EXCEPT ![r].status = s]

set_host(r, h) ==
  IF storeRoom[r] = NoRow THEN storeRoom ELSE [storeRoom EXCEPT ![r].host = h]

\* Room.delete_if_empty: the row is deleted when no RoomMember row is left.
delete_if_empty(r) ==
  IF Len(storeMembers[r]) # 0 THEN storeRoom ELSE [storeRoom EXCEPT ![r] = NoRow]

\* PlayerUser.id of the p-th registered player of the scenario: the ids are the
\* AUTOINCREMENT row ids of the store, where other players' registrations have
\* the ids in between.
UserId(p) == IF p < 3 THEN p ELSE p + 9

DigitChar(d) == <<"0", "1", "2", "3", "4", "5", "6", "7", "8", "9">>[d + 1]

\* str(n) of a positive integer, one character per element.
RECURSIVE Digits(_)
Digits(n) == IF n < 10 THEN <<DigitChar(n)>> ELSE Digits(n \div 10) \o <<DigitChar(n % 10)>>

RECURSIVE players_json(_)
players_json(ps) ==
  IF ps = <<>> THEN <<>>
  ELSE <<"{", "\"userId\": ">> \o Digits(UserId(Head(ps))) \o <<"}">>
       \o (IF Tail(ps) = <<>> THEN <<>> ELSE <<", ">>) \o players_json(Tail(ps))

\* json.dumps of the envelope _finish_match stores as resultsJson; the key with its
\* separator is one element, every digit is one element.
results_json(ps) ==
  <<"{", "\"players\": ", "[">> \o players_json(ps) \o <<"]", ", ", "\"results\": ", "[", "]", "}">>

\* SQL: s LIKE '%' || pat || '%'
Like(s, pat) ==
  \E i \in 1..(Len(s) - Len(pat) + 1) : SubSeq(s, i, i + Len(pat) - 1) = pat

\* MatchLog.has_player_played for the player of the p-th registration.
has_player_played(p) ==
  \E i \in DOMAIN matchLog :
    Like(results_json(matchLog[i].players), <<"\"userId\": ">> \o Digits(UserId(p)))

\* Room.has_playing_for_gameId: some Room row of the game has status playing.
has_playing == \E r \in RoomIds : storeRoom[r].status = "playing"

\* PlayerUser.login: every player of Players is registered with its own password;
\* the credential 0 stands for a wrong password or an unknown user.
login_ok(cred) == cred \in Players

Reply(t, ok) == [task[t] EXCEPT !.got = TRUE, !.ok = ok]

\* The store serves one request: db_server.handle -> dispatch.
dispatch(t) ==
  LET tk == task[t] IN
  /\ tk.req # "none"
  /\ ~tk.got
  /\ pushed' = {}
  /\ reply' = NoReply
  /\ UNCHANGED <<sessVars, cacheVars, devVars, dlVars, wireVars, procVars, envVars, readyCnt,
                 curMatch>>
  /\ versions' = IF tk.req = "gv_create" /\ ~versions[tk.up.version].committed
                 THEN [versions EXCEPT ![tk.up.version] =
                         [committed |-> TRUE, sizeBytes |-> tk.up.size,
                          sha256 |-> tk.up.sha256, manifest |-> tk.up.zip,
                          tree |-> tk.up.zip, upload |-> tk.up.id]]
                 ELSE versions
  /\ postHist' = IF tk.req = "matchlog_create" /\ tk.ctx = "post"
                 THEN [postHist EXCEPT ![t].rows = @ + 1] ELSE postHist
  /\ delisted' = IF tk.req = "set_delisted" THEN TRUE ELSE delisted
  /\ reviews' = IF tk.req = "review_upsert" THEN [reviews EXCEPT ![tk.sp] = tk.k]
                ELSE reviews
  /\ CASE tk.req = "login" ->
            /\ task' = [task EXCEPT ![t] = Reply(t, login_ok(tk.nh))]
            /\ UNCHANGED storeVars
       [] tk.req \in {"gv_latest", "gv_get"} ->
            /\ task' = [task EXCEPT ![t] = Reply(t, TRUE)]
            /\ UNCHANGED storeVars
       [] tk.req = "gv_for_version" ->
            LET row == versions[tk.up.version] IN
            /\ task' = [task EXCEPT ![t] = [Reply(t, ~delisted /\ row.committed) EXCEPT
                          !.up = [tk.up EXCEPT !.size = row.sizeBytes, !.sha256 = row.sha256]]]
            /\ UNCHANGED storeVars
       [] tk.req = "game_get" ->
            /\ task' = [task EXCEPT ![t] = [Reply(t, TRUE) EXCEPT
                          !.rstatus = IF delisted THEN "delisted" ELSE "listed"]]
            /\ UNCHANGED storeVars
       [] tk.req = "has_playing" ->
            /\ task' = [task EXCEPT ![t] = [Reply(t, TRUE) EXCEPT
                          !.rstatus = IF has_playing THEN "playing" ELSE "none"]]
            /\ UNCHANGED storeVars
       [] tk.req = "has_player_played" ->
            /\ task' = [task EXCEPT ![t] = Reply(t, has_player_played(tk.sp))]
            /\ UNCHANGED storeVars
       [] tk.req = "gv_create" ->
            /\ task' = [task EXCEPT ![t] = Reply(t, ~versions[tk.up.version].committed)]
            /\ UNCHANGED <<storeRoom, storeMembers, nRoom, matchLog>>
       [] tk.req \in {"set_delisted", "review_upsert"} ->
            /\ task' = [task EXCEPT ![t] = Reply(t, TRUE)]
            /\ UNCHANGED <<storeRoom, storeMembers, nRoom, matchLog>>
       [] tk.req = "room_get" ->
            LET r == room_get(tk.rid) IN
            /\ task' = [task EXCEPT ![t] = [Reply(t, r.ok) EXCEPT
                          !.rhost = r.host, !.rstatus = r.status, !.players = r.players]]
            /\ UNCHANGED storeVars
       [] tk.req = "room_list" ->
            /\ task' = [task EXCEPT ![t] = Reply(t, TRUE)]
            /\ UNCHANGED storeVars
       [] tk.req = "room_create" ->
            /\ nRoom < MaxRooms
            /\ nRoom' = nRoom + 1
            /\ storeRoom' = [storeRoom EXCEPT ![nRoom + 1] = [host |-> tk.sp, status |-> "waiting"]]
            /\ storeMembers' = [storeMembers EXCEPT ![nRoom + 1] = <<tk.sp>>]
            /\ task' = [task EXCEPT ![t] = [Reply(t, TRUE) EXCEPT !.rid = nRoom + 1]]
            /\ UNCHANGED matchLog
       [] tk.req = "add_member" ->
            /\ storeMembers' = add_member(tk.rid, tk.sp)
            /\ task' = [task EXCEPT ![t] = Reply(t, TRUE)]
            /\ UNCHANGED <<storeRoom, nRoom, matchLog>>
       [] tk.req = "remove_member" ->
            /\ storeMembers' = remove_member(tk.rid, tk.sp)
            /\ task' = [task EXCEPT ![t] = Reply(t, TRUE)]
            /\ UNCHANGED <<storeRoom, nRoom, matchLog>>
       [] tk.req = "set_host" ->
            /\ storeRoom' = set_host(tk.rid, tk.nh)
            /\ task' = [task EXCEPT ![t] = Reply(t, TRUE)]
            /\ UNCHANGED <<storeMembers, nRoom, matchLog>>
       [] tk.req \in {"set_waiting", "set_playing"} ->
            /\ storeRoom' = set_status(tk.rid, IF tk.req = "set_waiting" THEN "waiting" ELSE "playing")
            /\ task' = [task EXCEPT ![t] = Reply(t, TRUE)]
            /\ UNCHANGED <<storeMembers, nRoom, matchLog>>
       [] tk.req = "delete_if_empty" ->
            /\ storeRoom' = delete_if_empty(tk.rid)
            /\ task' = [task EXCEPT ![t] = Reply(t, Len(storeMembers[tk.rid]) = 0)]
            /\ UNCHANGED <<storeMembers, nRoom, matchLog>>
       [] tk.req = "matchlog_create" ->
            /\ matchLog' = Append(matchLog, [roomId |-> tk.rid, reason |-> tk.reason,
                                             players |-> tk.players, match |-> tk.fm])
            /\ task' = [task EXCEPT ![t] = Reply(t, TRUE)]
            /\ UNCHANGED <<storeRoom, storeMembers, nRoom>>

\* ---------------------------------------------------------------- lobby
\* The lobby's memory as one value: a step of a handler maps it to the memory after
\* the step.  `pushed` starts empty in every step.
Cur ==
  [task |-> task, byWriter |-> byWriter, byPid |-> byPid, sessRoom |-> sessRoom,
   ROOMS |-> ROOMS, heap |-> heap, nObj |-> nObj, reply |-> NoReply, pushed |-> {},
   readyCnt |-> readyCnt, curMatch |-> curMatch, postHist |-> postHist,
   UPLOADS |-> UPLOADS, nUpload |-> nUpload, tmpFile |-> tmpFile, zipFile |-> zipFile,
   extracted |-> extracted, DOWNLOADS |-> DOWNLOADS, nDownload |-> nDownload,
   dlClient |-> dlClient]

Commit(L) ==
  /\ task' = L.task
  /\ byWriter' = L.byWriter
  /\ byPid' = L.byPid
  /\ sessRoom' = L.sessRoom
  /\ ROOMS' = L.ROOMS
  /\ heap' = L.heap
  /\ nObj' = L.nObj
  /\ reply' = L.reply
  /\ pushed' = L.pushed
  /\ readyCnt' = L.readyCnt
  /\ curMatch' = L.curMatch
  /\ postHist' = L.postHist
  /\ UPLOADS' = L.UPLOADS
  /\ nUpload' = L.nUpload
  /\ tmpFile' = L.tmpFile
  /\ zipFile' = L.zipFile
  /\ extracted' = L.extracted
  /\ DOWNLOADS' = L.DOWNLOADS
  /\ nDownload' = L.nDownload
  /\ dlClient' = L.dlClient
  /\ UNCHANGED wireVars

\* await db_call(...): the request leaves, the handler is suspended at `pc`.
Issue(L, t, pc, req) ==
  [L EXCEPT !.task[t].pc = pc, !.task[t].req = req, !.task[t].got = FALSE,
            !.task[t].ok = FALSE]

\* Any other await: the handler is suspended at `pc`.
Await(L, t, pc) ==
  [L EXCEPT !.task[t].pc = pc, !.task[t].req = "none", !.task[t].got = FALSE]

\* The handler sends its reply and handle's loop waits for the next frame.
ReplyIdle(L, c, r) ==
  [L EXCEPT !.task[c] = Rest("idle"), !.reply = [conn |-> c, name |-> r]]

\* _push_event_to_player for each u of `us`: a frame on the socket of u's session,
\* nothing when u has no session.
Push(L, us, name, rid, arg, reason) ==
  [L EXCEPT !.pushed = @ \cup
     {[to |-> u, conn |-> L.byPid[u], name |-> name, room |-> rid, arg |-> arg,
       reason |-> reason] : u \in {x \in SeqToSet(us) : L.byPid[x] # 0}}]

RECURSIVE entered(_, _, _, _)

\* _ensure_room_live: the cached object, without suspension, or Room.get.  `site`
\* names the caller; entered(L, t, site, o) is the caller's code after the call
\* returned object o (0: None).
ensure_room_live(L, t, site) ==
  IF L.ROOMS[L.task[t].rid] # 0 THEN entered(L, t, site, L.ROOMS[L.task[t].rid])
  ELSE Issue(L, t, site, "room_get")

\* _ensure_room_live after Room.get: a new RoomLive object replaces ROOMS[room_id].
ensure_room_loaded(L, t) ==
  LET tk == L.task[t] IN
  IF tk.ok
  THEN LET o == L.nObj + 1 IN
       entered([L EXCEPT !.nObj = o, !.ROOMS[tk.rid] = o,
                         !.heap[o] = [host |-> tk.rhost, players |-> tk.players,
                                      status |-> tk.rstatus, token |-> 0, port |-> 0,
                                      proc |-> 0]], t, tk.pc, o)
  ELSE entered(L, t, tk.pc, 0)

\* ---- _cleanup_connection, its end (lines 578-580, and handle's finally)
cleanup_end(L, t) ==
  IF L.task[t].cl = "logout" THEN ReplyIdle(L, t, "loggedOut")
  ELSE [L EXCEPT !.task[t] = Rest("closed")]

\* ---- _handle_room_leave
leave_return(L, t) ==
  IF L.task[t].cl = "none" THEN ReplyIdle(L, t, "left") ELSE cleanup_end(L, t)

leave_finish(L, t) ==
  leave_return([L EXCEPT !.sessRoom[<<t, L.task[t].sp>>] = 0], t)

leave_notify(L, t) ==
  LET tk == L.task[t]
      ps == L.heap[tk.live].players
      L1 == Push(L, ps, "player_left", tk.rid, tk.sp, "none")
  IN IF ps = <<>> THEN Issue(L1, t, "leave_delete", "delete_if_empty")
     ELSE leave_finish(L1, t)

leave_hostset(L, t) ==
  LET tk == L.task[t] IN
  leave_notify(Push(L, L.heap[tk.live].players, "host_changed", tk.rid, tk.nh, "none"), t)

\* live.players[0] of line 532.
new_host(ps) == ps[1]

leave_removed(L, t) ==
  LET tk == L.task[t] IN
  IF tk.live = 0 THEN leave_finish(L, t)
  ELSE LET ps == Without(L.heap[tk.live].players, tk.sp)
           L1 == [L EXCEPT !.heap[tk.live].players = ps]
       IN IF ps # <<>> /\ L.heap[tk.live].host = tk.sp
          THEN Issue([L1 EXCEPT !.heap[tk.live].host = new_host(ps),
                                !.task[t].nh = new_host(ps)],
                     t, "leave_sethost", "set_host")
          ELSE leave_notify(L1, t)

leave_deleted(L, t) == leave_finish([L EXCEPT !.ROOMS[L.task[t].rid] = 0], t)

leave_entered(L, t, o) ==
  LET force == L.task[t].cl # "none" IN
  IF ~force /\ o # 0 /\ L.heap[o].status = "playing" THEN leave_return(L, t)
  ELSE Issue([L EXCEPT !.task[t].live = o], t, "leave_remove", "remove_member")

handle_room_leave_inner(L, t) ==
  LET rid == L.sessRoom[<<t, L.task[t].sp>>] IN
  IF rid = 0 THEN leave_return(L, t)
  ELSE ensure_room_live([L EXCEPT !.task[t].rid = rid], t, "leave_ensure")

\* ---- handle_room_start, from line 693 on
start_validate(L, t) == Issue(L, t, "start_get", "room_get")

\* ---- _finish_match
finish_return(L, t) ==
  LET ctx == L.task[t].ctx IN
  CASE ctx = "post" -> ReplyIdle([L EXCEPT !.postHist[t].run = FALSE], t, "posted")
    [] ctx = "watch" -> [L EXCEPT !.task[t] = Rest("done")]
    [] ctx = "cleanup" -> handle_room_leave_inner(L, t)
    [] ctx = "start" -> start_validate(L, t)

\* line 587
already_finished(obj) == obj.status # "playing" /\ obj.proc = 0 /\ obj.token = 0

\* _finish_match without the reset of line 643.
finish_logged_mut(L, t) ==
  LET tk == L.task[t] IN
  IF tk.af THEN finish_return(L, t)
  ELSE Issue([L EXCEPT !.heap[tk.live] =
                [@ EXCEPT !.status = "waiting", !.port = 0, !.proc = 0]],
             t, "fin_status", "set_waiting")

\* lines 639-646
finish_logged(L, t) ==
  LET tk == L.task[t] IN
  IF tk.af THEN finish_return(L, t)
  ELSE Issue([L EXCEPT !.heap[tk.live] =
                [@ EXCEPT !.status = "waiting", !.token = 0, !.port = 0, !.proc = 0]],
             t, "fin_status", "set_waiting")

\* lines 604-637: the MatchLog row carries live.players as read now.  The int()
\* of a bad startedAt, endedAt or winner raises inside the try: no request is
\* made and the handler goes on without suspension.
finish_log(L, t) ==
  IF L.task[t].bad THEN finish_logged(L, t)
  ELSE Issue([L EXCEPT !.task[t].players = L.heap[L.task[t].live].players],
             t, "fin_log", "matchlog_create")

finish_entered(L, t, o) ==
  IF o = 0 THEN finish_return(L, t)
  ELSE LET obj == L.heap[o]
           L1 == [L EXCEPT !.task[t].live = o,
                           !.task[t].af = already_finished(obj),
                           !.task[t].fm = IF obj.status = "playing"
                                          THEN L.curMatch[L.task[t].rid] ELSE 0]
       IN IF obj.proc # 0 /\ proc[obj.proc].st = "running"
          THEN Await(L1, t, "fin_wait")
          ELSE finish_log(L1, t)

finish_match(L, t, ctx, reason) ==
  ensure_room_live([L EXCEPT !.task[t].ctx = ctx, !.task[t].reason = reason],
                   t, "fin_ensure")

\* lines 648-649
finish_done(L, t) ==
  LET tk == L.task[t]
      L1 == Push(L, L.heap[tk.live].players, "game_ready", tk.rid, 0, tk.reason)
      got == {e.to : e \in L1.pushed}
      L2 == IF tk.fm = 0 THEN L1
            ELSE [L1 EXCEPT !.readyCnt[tk.fm] =
                    [p \in Players |-> IF p \in got /\ @[p] < MaxReady THEN @[p] + 1 ELSE @[p]]]
  IN finish_return(L2, t)

\* ---- _cleanup_connection
cleanup_entered(L, t, o) ==
  IF o # 0 /\ L.heap[o].status = "playing"
  THEN finish_match([L EXCEPT !.task[t].hd = (L.heap[o].host = L.task[t].sp)],
                    t, "cleanup", "disconnect")
  ELSE handle_room_leave_inner(L, t)

cleanup_connection(L, t, cl) ==
  LET p == L.byWriter[t] IN
  IF p = 0 THEN cleanup_end([L EXCEPT !.task[t] = [Rest("cleanup") EXCEPT !.cl = cl]], t)
  ELSE LET rid == L.sessRoom[<<t, p>>]
           L1 == [L EXCEPT !.byWriter[t] = 0, !.byPid[p] = 0,
                           !.task[t] = [Rest("cleanup") EXCEPT !.cl = cl, !.sp = p, !.rid = rid]]
       IN IF rid = 0 THEN cleanup_end(L1, t)
          ELSE ensure_room_live(L1, t, "cl_ensure")

\* An exception leaves _finish_match (line 599: live.game_proc is None after the
\* wait).  In a frame handler: handle's except sends server_exception and its
\* finally runs _cleanup_connection.  In _cleanup_connection: the cleanup is
\* abandoned and the connection's task ends.  In the supervisor: the task ends.
finish_raise(L, t) ==
  LET tk == L.task[t] IN
  CASE tk.ctx \in {"post", "start"} ->
         cleanup_connection([L EXCEPT !.reply = [conn |-> t, name |-> "server_exception"],
                                      !.postHist[t].run = FALSE],
                            t, "close")
    [] tk.ctx = "watch" -> [L EXCEPT !.task[t] = Rest("done")]
    [] tk.ctx = "cleanup" ->
         [L EXCEPT !.task[t] = Rest("closed"),
                   !.reply = IF tk.cl = "logout"
                             THEN [conn |-> t, name |-> "server_exception"] ELSE @]

\* An exception leaves db_call (db_rpc.py:19: asyncio.open_connection is outside
\* the try) and the handler that awaits it.  In a frame handler: handle's except
\* sends server_exception and its finally runs _cleanup_connection.  In the
\* _cleanup_connection of handle's finally: the cleanup is abandoned and the
\* connection's task ends.  In the supervisor: the task ends.
db_raise(L, t) ==
  LET tk == L.task[t] IN
  IF t \in Watchers THEN [L EXCEPT !.task[t] = Rest("done")]
  ELSE IF tk.cl = "close" THEN [L EXCEPT !.task[t] = Rest("closed")]
  ELSE cleanup_connection([L EXCEPT !.reply = [conn |-> t, name |-> "server_exception"],
                                    !.postHist[t].run = FALSE],
                          t, "close")

\* lines 598-601, after the wait for the child
finish_waited(L, t) ==
  IF L.heap[L.task[t].live].proc = 0 THEN finish_raise(L, t) ELSE finish_log(L, t)

\* ---- _watch_game
watch_check2(L, t, o) ==
  IF o = 0 \/ L.heap[o].status # "playing" THEN [L EXCEPT !.task[t] = Rest("done")]
  ELSE finish_match(L, t, "watch", "process_exit")

watch_check1(L, t, o) ==
  IF o = 0 \/ L.heap[o].status # "playing" THEN [L EXCEPT !.task[t] = Rest("done")]
  ELSE Await(L, t, "watch_sleep")

watch_exited(L, t) ==
  ensure_room_live(L, t, "watch_ensure1")

watch_slept(L, t) ==
  ensure_room_live(L, t, "watch_ensure2")

\* ---- handle_player_login
\* handle_player_login without the test of line 210.
AlreadyOnline_mut(L, pid) == FALSE
\* line 210
AlreadyOnline(L, pid) == L.byPid[pid] # 0

login_done(L, c) ==
  LET tk == L.task[c]
      pid == tk.nh
  IN IF ~tk.ok THEN ReplyIdle(L, c, "bad_credentials")
     ELSE IF AlreadyOnline(L, pid) THEN ReplyIdle(L, c, "already_online")
     ELSE ReplyIdle([L EXCEPT !.byWriter[c] = pid, !.byPid[pid] = c,
                              !.sessRoom[<<c, pid>>] = 0], c, "logged_in")

\* ---- handle_room_create
create_entered(L, c, o) ==
  ReplyIdle(IF o # 0 THEN [L EXCEPT !.sessRoom[<<c, L.task[c].sp>>] = L.task[c].rid] ELSE L,
            c, "created")

create_begin(L, c) ==
  LET p == L.byWriter[c] IN
  IF p = 0 THEN ReplyIdle(L, c, "not_logged_in")
  ELSE IF L.sessRoom[<<c, p>>] # 0 THEN ReplyIdle(L, c, "already_in_room")
  ELSE Issue([L EXCEPT !.task[c].sp = p], c, "create_game", "game_get")

\* handle_room_create without the test of line 436.
create_listed_mut(L, c) == Issue(L, c, "create_latest", "gv_latest")

\* lines 431-439, after Game.get_by_gameId
create_listed(L, c) ==
  IF L.task[c].rstatus = "delisted" THEN ReplyIdle(L, c, "game_delisted")
  ELSE Issue(L, c, "create_latest", "gv_latest")

create_roomed(L, c) ==
  ensure_room_live(L, c, "create_ensure")

\* ---- handle_room_join
join_entered(L, c, o) ==
  IF o = 0 THEN ReplyIdle(L, c, "no_such_room")
  ELSE IF L.heap[o].status = "playing" THEN ReplyIdle(L, c, "room_playing")
  ELSE Issue([L EXCEPT !.task[c].live = o], c, "join_get", "room_get")

join_begin(L, c, r) ==
  LET p == L.byWriter[c] IN
  IF p = 0 THEN ReplyIdle(L, c, "not_logged_in")
  ELSE IF L.sessRoom[<<c, p>>] # 0 THEN ReplyIdle(L, c, "already_in_room")
  ELSE ensure_room_live([L EXCEPT !.task[c].sp = p, !.task[c].rid = r], c, "join_ensure")

\* handle_room_join without the test of line 493.
join_got_mut(L, c) ==
  LET tk == L.task[c] IN
  IF ~tk.ok THEN ReplyIdle(L, c, "not_found")
  ELSE IF Len(tk.players) >= gv.max THEN ReplyIdle(L, c, "room_full")
  ELSE Issue(L, c, "join_add", "add_member")

\* lines 485-499, after the Room.get of line 485
join_got(L, c) ==
  LET tk == L.task[c] IN
  IF ~tk.ok THEN ReplyIdle(L, c, "not_found")
  ELSE IF tk.sp \in SeqToSet(tk.players)
  THEN ReplyIdle([L EXCEPT !.sessRoom[<<c, tk.sp>>] = tk.rid], c, "joined")
  ELSE IF Len(tk.players) >= gv.max THEN ReplyIdle(L, c, "room_full")
  ELSE Issue(L, c, "join_add", "add_member")

join_added(L, c) ==
  LET tk == L.task[c]
      ps == SortedSeq(SeqToSet(tk.players) \cup {tk.sp})
      L1 == [L EXCEPT !.heap[tk.live].players = ps, !.sessRoom[<<c, tk.sp>>] = tk.rid]
      L2 == Push(L1, Without(ps, tk.sp), "player_joined", tk.rid, tk.sp, "none")
  IN IF ~tk.ok THEN ReplyIdle(L, c, "join_failed") ELSE ReplyIdle(L2, c, "joined")

\* ---- handle_room_list, lines 400-403, after Room.list: the reply carries the
\* rows of all rooms with their members.
room_listed(L, c) ==
  IF ~L.task[c].ok THEN ReplyIdle(L, c, "list_failed") ELSE ReplyIdle(L, c, "rooms")

\* ---- handle_room_detail, lines 406-414: the reply carries the row of the room.
room_detail_begin(L, c, r) ==
  IF r = 0 THEN ReplyIdle(L, c, "bad_room_id")
  ELSE Issue([L EXCEPT !.task[c].rid = r], c, "rdetail_get", "room_get")

room_detailed(L, c) ==
  IF ~L.task[c].ok THEN ReplyIdle(L, c, "no_such_room") ELSE ReplyIdle(L, c, "room")

\* ---- handle_room_leave
hleave_entered(L, c, o) ==
  IF o # 0 /\ L.heap[o].status = "playing" THEN ReplyIdle(L, c, "room_playing")
  ELSE handle_room_leave_inner(L, c)

hleave_begin(L, c) ==
  LET p == L.byWriter[c] IN
  IF p = 0 THEN ReplyIdle(L, c, "not_logged_in")
  ELSE LET L1 == [L EXCEPT !.task[c].sp = p, !.task[c].rid = L.sessRoom[<<c, p>>]] IN
       IF L.sessRoom[<<c, p>>] = 0 THEN handle_room_leave_inner(L1, c)
       ELSE ensure_room_live(L1, c, "hleave_ensure")

\* ---- handle_room_start
start_entered(L, c, o) ==
  IF o = 0 THEN ReplyIdle(L, c, "no_such_room")
  ELSE IF L.task[c].sp # L.heap[o].host THEN ReplyIdle(L, c, "not_host")
  ELSE LET L1 == [L EXCEPT !.task[c].live = o]
           obj == L.heap[o]
       IN IF obj.status = "playing"
          THEN IF obj.proc = 0 THEN finish_match(L1, c, "start", "stale_state")
               ELSE IF proc[obj.proc].st # "running"
               THEN finish_match(L1, c, "start", "process_exit")
               ELSE ReplyIdle(L, c, "already_playing")
          ELSE start_validate(L1, c)

start_begin(L, c, r) ==
  LET p == L.byWriter[c] IN
  IF p = 0 THEN ReplyIdle(L, c, "not_logged_in")
  ELSE LET rid == IF r # 0 THEN r ELSE L.sessRoom[<<c, p>>] IN
       IF rid = 0 THEN ReplyIdle(L, c, "bad_room_id")
       ELSE ensure_room_live([L EXCEPT !.task[c].sp = p, !.task[c].rid = rid], c, "start_ensure")

start_got(L, c) ==
  LET tk == L.task[c] IN
  IF ~tk.ok THEN ReplyIdle(L, c, "not_found")
  ELSE IF Len(tk.players) < gv.min THEN ReplyIdle(L, c, "need_more_players")
  ELSE Issue(L, c, "start_gv", "gv_get")

\* _select_free_port: the first port of the range that nothing is bound to.
BoundPorts == {proc[k].port : k \in {j \in Matches : proc[j].st = "running"}}
FreePorts == GamePorts \ BoundPorts

start_versioned(L, c) ==
  IF ~L.task[c].ok THEN ReplyIdle(L, c, "bad_game_version")
  ELSE IF FreePorts = {} THEN ReplyIdle(L, c, "no_port")
  ELSE Await([L EXCEPT !.task[c].port = CHOOSE p \in FreePorts : \A q \in FreePorts : p <= q],
             c, "start_spawn")

\* lines 773-778
start_spawned(L, c) ==
  LET tk == L.task[c] IN
  Issue([L EXCEPT !.heap[tk.live] = [@ EXCEPT !.status = "playing", !.players = tk.players,
                                              !.token = tk.k, !.port = tk.port, !.proc = tk.k],
                  !.curMatch[tk.rid] = tk.k],
        c, "start_status", "set_playing")

\* lines 781-794
start_done(L, c) ==
  LET tk == L.task[c]
      L1 == Push(L, tk.players, "game_info", tk.rid, tk.k, "none")
      L2 == [L1 EXCEPT !.task[Watcher(tk.k)] =
               [Rest("watch_exit") EXCEPT !.rid = tk.rid, !.k = tk.k]]
  IN ReplyIdle(L2, c, "started")

\* The code that follows each call of _ensure_room_live.
entered(L, t, site, o) ==
  CASE site = "fin_ensure" -> finish_entered(L, t, o)
    [] site = "leave_ensure" -> leave_entered(L, t, o)
    [] site = "cl_ensure" -> cleanup_entered(L, t, o)
    [] site = "hleave_ensure" -> hleave_entered(L, t, o)
    [] site = "start_ensure" -> start_entered(L, t, o)
    [] site = "join_ensure" -> join_entered(L, t, o)
    [] site = "create_ensure" -> create_entered(L, t, o)
    [] site = "watch_ensure1" -> watch_check1(L, t, o)
    [] site = "watch_ensure2" -> watch_check2(L, t, o)

\* ---- handle_review_upsert, after MatchLog.has_player_played (lines 829-835)
review_checked(L, c) ==
  IF ~L.task[c].ok THEN ReplyIdle(L, c, "not_played")
  ELSE Issue(L, c, "review_upsert", "review_upsert")

\* ---- developer_server.handle_upload_init, lines 341-365: the game exists and is
\* the developer's own.
upload_init_opened(L, t) ==
  LET a == L.task[t].up
      u == L.nUpload + 1
  IN ReplyIdle([L EXCEPT !.nUpload = u,
                         !.UPLOADS[u] = [open |-> TRUE, version |-> a.version,
                                         expected_size |-> a.size,
                                         expected_sha256 |-> a.sha256,
                                         received |-> 0, next_seq |-> 0, hasher |-> <<>>],
                         !.tmpFile[u] = [exists |-> TRUE, bytes |-> <<>>]],
               t, "upload_opened")

\* handle_upload_chunk with a session that follows the client: a chunk out of
\* sequence moves next_seq to the seq received.
upload_chunk_mut(L, t, u, seq, chunk) ==
  LET up == L.UPLOADS[u] IN
  IF ~up.open THEN ReplyIdle(L, t, "no_such_upload")
  ELSE IF seq # up.next_seq THEN ReplyIdle([L EXCEPT !.UPLOADS[u].next_seq = seq], t, "bad_seq")
  ELSE IF ~chunk.b64 THEN ReplyIdle(L, t, "bad_base64")
  ELSE IF chunk.data = <<>> THEN ReplyIdle(L, t, "empty_chunk")
  ELSE IF up.received + Len(chunk.data) > up.expected_size THEN ReplyIdle(L, t, "too_large")
  ELSE ReplyIdle([L EXCEPT !.tmpFile[u].bytes = @ \o chunk.data,
                           !.UPLOADS[u].hasher = @ \o chunk.data,
                           !.UPLOADS[u].received = @ + Len(chunk.data),
                           !.UPLOADS[u].next_seq = @ + 1],
                 t, "chunk_ok")

\* ---- developer_server.handle_upload_chunk, lines 374-408.  b64: the dataB64
\* field decodes; data: the decoded bytes.
upload_chunk(L, t, u, seq, chunk) ==
  LET up == L.UPLOADS[u] IN
  IF ~up.open THEN ReplyIdle(L, t, "no_such_upload")
  ELSE IF seq # up.next_seq THEN ReplyIdle(L, t, "bad_seq")
  ELSE IF ~chunk.b64 THEN ReplyIdle(L, t, "bad_base64")
  ELSE IF chunk.data = <<>> THEN ReplyIdle(L, t, "empty_chunk")
  ELSE IF up.received + Len(chunk.data) > up.expected_size THEN ReplyIdle(L, t, "too_large")
  ELSE ReplyIdle([L EXCEPT !.tmpFile[u].bytes = @ \o chunk.data,
                           !.UPLOADS[u].hasher = @ \o chunk.data,
                           !.UPLOADS[u].received = @ + Len(chunk.data),
                           !.UPLOADS[u].next_seq = @ + 1],
                 t, "chunk_ok")

\* _safe_extract_zip raises: the bytes are no archive, or an entry is unsafe.
ExtractFails(z) == z.defect \in {"junk", "not_zip", "unsafe_entry"}

\* str(e) of the exception _safe_extract_zip raises: its own ValueError for an
\* unsafe entry, zipfile.BadZipFile for bytes that are no archive.
ExtractError(z) ==
  IF z.defect = "unsafe_entry" THEN "unsafe_zip_entry" ELSE "File is not a zip file"

\* The error code of line 447: f"extract_failed:{e}".
extract_failed(e) == "extract_failed:" \o e

\* Path.exists() of the module of the server and of the client entrypoint.
srv_exists(z) == z.defect # "no_server"
cli_exists(z) == z.defect # "no_client"

\* lines 454-475, on the extracted package z of an upload that declared version v.
upload_validate(L, t, z) ==
  LET v == L.task[t].up.version IN
  IF z.defect = "no_manifest" THEN ReplyIdle(L, t, "missing_manifest")
  ELSE IF z.defect = "bad_manifest" THEN ReplyIdle(L, t, "bad_manifest")
  ELSE IF z.defect = "other_game" THEN ReplyIdle(L, t, "manifest_gameId_mismatch")
  ELSE IF z.version # v THEN ReplyIdle(L, t, "manifest_version_mismatch")
  ELSE IF ~srv_exists(z) THEN ReplyIdle(L, t, "missing_server_entry")
  ELSE IF ~cli_exists(z) THEN ReplyIdle(L, t, "missing_client_entry")
  ELSE Issue(L, t, "upfin_game", "game_get")

\* lines 435-451: shutil.move of the temp file, rmtree and _safe_extract_zip.
upload_extract(L, t, u) ==
  LET v == L.UPLOADS[u].version
      f == L.tmpFile[u]
      z == Unzip(f.bytes)
      L1 == [L EXCEPT !.tmpFile[u] = NoFile, !.zipFile[v] = f,
                      !.extracted[v] = [exists |-> TRUE, zip |-> NoZip]]
  IN IF ~f.exists THEN ReplyIdle(L, t, extract_failed("[Errno 2] No such file or directory"))
     ELSE IF ExtractFails(z) THEN ReplyIdle(L1, t, extract_failed(ExtractError(z)))
     ELSE upload_validate([L1 EXCEPT !.extracted[v].zip = z], t, z)

\* ---- developer_server.handle_upload_finish, lines 417-433
upload_finish(L, t, u) ==
  LET up == L.UPLOADS[u]
      L1 == [L EXCEPT !.task[t].up = [id |-> u, version |-> up.version,
                                      size |-> up.expected_size,
                                      sha256 |-> up.expected_sha256,
                                      zip |-> Unzip(L.tmpFile[u].bytes)]]
  IN IF ~up.open THEN ReplyIdle(L, t, "no_such_upload")
     ELSE IF up.received # up.expected_size THEN ReplyIdle(L, t, "size_mismatch")
     ELSE IF sha256(up.hasher) # up.expected_sha256 THEN ReplyIdle(L, t, "hash_mismatch")
     ELSE upload_extract(L1, t, u)

\* lines 510-515, after GameVersion.create
upload_finish_done(L, t) ==
  IF ~L.task[t].ok THEN ReplyIdle(L, t, "version_exists")
  ELSE ReplyIdle([L EXCEPT !.UPLOADS[L.task[t].up.id] = NoUpload], t, "uploaded")

\* ---- lobby_server.handle_store_download_init, lines 329-357, after the store has
\* answered get_for_gameId_version.
download_init_done(L, t) ==
  LET a == L.task[t].up
      f == L.zipFile[a.version]
      d == L.nDownload + 1
      size == IF a.size # 0 THEN a.size ELSE ByteLen(f.bytes)
  IN IF ~L.task[t].ok THEN ReplyIdle([L EXCEPT !.dlClient[t] = NoClient], t, "no_version")
     ELSE IF ~f.exists
     THEN ReplyIdle([L EXCEPT !.dlClient[t] = NoClient], t, "missing_zip_on_server")
     ELSE ReplyIdle([L EXCEPT !.nDownload = d,
                              !.DOWNLOADS[d] = [open |-> TRUE, version |-> a.version,
                                                size_bytes |-> size, sha256 |-> a.sha256],
                              !.dlClient[t] = [@ EXCEPT !.id = d, !.size = size,
                                                        !.sha = a.sha256]],
                    t, "download_opened")

\* ensure_downloaded, lines 301-307 of lobby_client.py: the client of connection t
\* decodes the chunk of an ok reply, writes it and moves its offset on.
client_chunk(L, t, dataB64, done) ==
  LET chunk == b64decode(dataB64) IN
  [L EXCEPT !.dlClient[t] = [@ EXCEPT !.tmp_zip = Write(@, chunk),
                                      !.offset = @ + ByteLen(chunk),
                                      !.done = done,
                                      !.n = @ + 1,
                                      !.last = ByteLen(chunk)]]

\* ---- lobby_server.handle_store_download_chunk, lines 360-392.  io: opening or
\* reading the package file raises.  `mine`: the frame is one of the loop of the
\* client of t, which then takes in the reply.
store_download_chunk(L, t, d, offset, limit, io, mine) ==
  IF d = 0 \/ offset < 0 THEN ReplyIdle(L, t, "bad_request")
  ELSE LET sess == L.DOWNLOADS[d]
           f == L.zipFile[sess.version]
           lim == Max(1, Min(IF limit = 0 THEN MAX_B64_CHUNK ELSE limit, MAX_B64_CHUNK))
           chunk == Take(Drop(f.bytes, offset), lim)
           done == (offset + ByteLen(chunk)) >= sess.size_bytes
           L1 == IF mine THEN client_chunk(L, t, b64encode(chunk), done) ELSE L
           L2 == IF done THEN [L1 EXCEPT !.DOWNLOADS[d] = NoDownload] ELSE L1
       IN IF ~sess.open THEN ReplyIdle(L, t, "no_such_download")
          ELSE IF io \/ ~f.exists THEN ReplyIdle(L, t, "read_failed")
          ELSE ReplyIdle(L2, t, "chunk")

\* ---- developer_server.handle_game_delist, after Room.has_playing_for_gameId
delist_checked(L, t) ==
  IF L.task[t].rstatus = "playing" THEN ReplyIdle(L, t, "game_in_progress")
  ELSE Issue(L, t, "dl_set", "set_delisted")

\* ---------------------------------------------------------------- actions
\* Room r is cached, waiting, and its token, port and process handle are unset.
Finalized(r) ==
  /\ ROOMS[r] # 0
  /\ heap[ROOMS[r]].status = "waiting"
  /\ heap[ROOMS[r]].token = 0
  /\ heap[ROOMS[r]].port = 0
  /\ heap[ROOMS[r]].proc = 0

Idle(c) == task[c].pc = "idle" /\ nFrames > 0

Frame(c) == nFrames' = nFrames - 1

\* asyncio.start_server accepts a connection: handle sends the hello frame.
connect(c) ==
  /\ task[c].pc = "new"
  /\ Commit(ReplyIdle(Cur, c, "hello"))
  /\ UNCHANGED <<storeVars, procVars, envVars>>

\* recv_frame returns None (the peer closed): handle's finally.
close(c) ==
  /\ task[c].pc = "idle"
  /\ Commit(cleanup_connection(Cur, c, "close"))
  /\ UNCHANGED <<storeVars, procVars, envVars>>

\* recv_frame raises FramingError (a length field of 0 or above MAX_FRAME):
\* handle's `except FramingError: pass` and its finally.
framing_error(c) ==
  /\ Idle(c)
  /\ Commit(cleanup_connection(Cur, c, "close"))
  /\ Frame(c)
  /\ UNCHANGED <<storeVars, procVars, nPost, gv>>

\* A frame whose decoding raises in handle (json.loads of a payload that is no
\* JSON, line 861): handle's `except Exception` sends server_exception, then its
\* finally.
server_exception(c) ==
  /\ Idle(c)
  /\ Commit(cleanup_connection([Cur EXCEPT !.reply = [conn |-> c, name |-> "server_exception"]],
                               c, "close"))
  /\ Frame(c)
  /\ UNCHANGED <<storeVars, procVars, nPost, gv>>

handle_player_login(c, cred) ==
  /\ Idle(c)
  /\ Commit(Issue([Cur EXCEPT !.task[c].nh = cred], c, "login_db", "login"))
  /\ Frame(c)
  /\ UNCHANGED <<storeVars, procVars, nPost, gv>>

handle_player_logout(c) ==
  /\ Idle(c)
  /\ Commit(cleanup_connection(Cur, c, "logout"))
  /\ Frame(c)
  /\ UNCHANGED <<storeVars, procVars, nPost, gv>>

handle_room_create(c) ==
  /\ Idle(c)
  /\ Commit(create_begin(Cur, c))
  /\ Frame(c)
  /\ UNCHANGED <<storeVars, procVars, nPost, gv>>

handle_room_list(c) ==
  /\ Idle(c)
  /\ Commit(Issue(Cur, c, "rlist", "room_list"))
  /\ Frame(c)
  /\ UNCHANGED <<storeVars, procVars, nPost, gv>>

handle_room_detail(c, r) ==
  /\ Idle(c)
  /\ Commit(room_detail_begin(Cur, c, r))
  /\ Frame(c)
  /\ UNCHANGED <<storeVars, procVars, nPost, gv>>

handle_room_join(c, r) ==
  /\ Idle(c)
  /\ Commit(join_begin(Cur, c, r))
  /\ Frame(c)
  /\ UNCHANGED <<storeVars, procVars, nPost, gv>>

handle_room_leave(c) ==
  /\ Idle(c)
  /\ Commit(hleave_begin(Cur, c))
  /\ Frame(c)
  /\ UNCHANGED <<storeVars, procVars, nPost, gv>>

handle_room_start(c, r) ==
  /\ Idle(c)
  /\ Commit(start_begin(Cur, c, r))
  /\ Frame(c)
  /\ UNCHANGED <<storeVars, procVars, nPost, gv>>

handle_post_result(c, r, bad) ==
  /\ Idle(c)
  /\ nPost < MaxPosts
  /\ Commit(finish_match([Cur EXCEPT !.task[c].rid = r, !.task[c].bad = bad,
                                     !.postHist[c] = [late |-> Finalized(r), run |-> TRUE,
                                                      rows |-> 0]],
                         c, "post", "finished"))
  /\ Frame(c)
  /\ nPost' = nPost + 1
  /\ UNCHANGED <<storeVars, procVars, gv>>

\* developer_server.handle_game_delist with delisted = true, of the game's owner.
handle_game_delist ==
  /\ Idle(Dev)
  /\ Commit(Issue([Cur EXCEPT !.task[Dev].fm =
                      IF \E r \in RoomIds : ROOMS[r] # 0 /\ heap[ROOMS[r]].status = "playing"
                      THEN curMatch[CHOOSE r \in RoomIds :
                                      ROOMS[r] # 0 /\ heap[ROOMS[r]].status = "playing"]
                      ELSE 0],
                  Dev, "dl_check", "has_playing"))
  /\ Frame(Dev)
  /\ UNCHANGED <<storeVars, procVars, nPost, gv>>

\* review_create_or_update{gameId, rating} of a logged-in player.
handle_review_upsert(c, rating) ==
  /\ Idle(c)
  /\ byWriter[c] # 0
  /\ Commit(Issue([Cur EXCEPT !.task[c].sp = byWriter[c], !.task[c].k = rating],
                  c, "review_played", "has_player_played"))
  /\ Frame(c)
  /\ UNCHANGED <<storeVars, procVars, nPost, gv>>

\* game_upload_init{gameId, version, sizeBytes, sha256} of the game's owner, who
\* declares the hash of package file z.
handle_upload_init(v, size, z) ==
  /\ Idle(Dev)
  /\ nUpload < MaxUploads
  /\ Commit(Issue([Cur EXCEPT !.task[Dev].up =
                      [id |-> 0, version |-> v, size |-> size, sha256 |-> sha256(Bytes(z)),
                       zip |-> NoZip]],
                  Dev, "upinit_game", "game_get"))
  /\ Frame(Dev)
  /\ UNCHANGED <<storeVars, procVars, nPost, gv>>

\* The chunks a client sends for upload u: a dataB64 that does not decode, no
\* bytes, bytes of no package, or the block of the package whose hash was declared.
Chunks(u) ==
  {[b64 |-> FALSE, data |-> <<>>], [b64 |-> TRUE, data |-> <<>>],
   [b64 |-> TRUE, data |-> <<NoZip>>]}
  \cup {[b64 |-> TRUE, data |-> Bytes(z)] :
          z \in {x \in ZipFiles : UPLOADS[u].open /\ sha256(Bytes(x)) = UPLOADS[u].expected_sha256}}

handle_upload_chunk(u, seq, chunk) ==
  /\ Idle(Dev)
  /\ Commit(upload_chunk(Cur, Dev, u, seq, chunk))
  /\ Frame(Dev)
  /\ UNCHANGED <<storeVars, procVars, nPost, gv>>

handle_upload_finish(u) ==
  /\ Idle(Dev)
  /\ Commit(upload_finish(Cur, Dev, u))
  /\ Frame(Dev)
  /\ UNCHANGED <<storeVars, procVars, nPost, gv>>

\* store_download_init{gameId, version: v} of the client of connection c, whose
\* loop will ask for `limit` bytes per chunk.
handle_store_download_init(c, v, limit) ==
  /\ Idle(c)
  /\ nDownload < MaxDownloads
  /\ Commit(Issue([Cur EXCEPT !.task[c].up = [NoArgs EXCEPT !.version = v],
                              !.dlClient[c] = [NoClient EXCEPT !.limit = limit]],
                  c, "dlinit_gv", "gv_for_version"))
  /\ Frame(c)
  /\ UNCHANGED <<storeVars, procVars, nPost, gv>>

\* store_download_chunk{downloadId: d, offset, limit}: the next frame of the loop
\* of the client of c when d is the download of that client and the loop has not
\* ended, otherwise a frame with offset 0 and no limit.
handle_store_download_chunk(c, d, io) ==
  LET cl == dlClient[c]
      mine == d # 0 /\ d = cl.id /\ ~cl.done
  IN
  /\ Idle(c)
  /\ Commit(store_download_chunk(Cur, c, d, IF mine THEN cl.offset ELSE 0,
                                 IF mine THEN cl.limit ELSE 0, io, mine))
  /\ Frame(c)
  /\ UNCHANGED <<storeVars, procVars, nPost, gv>>

\* The ways a db_call of the lobby fails: the store refuses the connection, the
\* store closes the connection before it replies, the reply is no JSON.
StoreFailures == {"refused", "closed", "malformed"}

\* db_rpc.db_call, lines 18-31, when the store fails on the request of task t; the
\* store's tables are not written.
db_fault(t, kind) ==
  /\ t \in Conns \cup Watchers
  /\ task[t].req # "none"
  /\ ~task[t].got
  /\ Commit(IF kind = "refused" THEN db_raise(Cur, t)
            ELSE [Cur EXCEPT !.task[t].got = TRUE, !.task[t].ok = FALSE,
                             !.task[t].err = IF kind = "closed" THEN "db_no_response"
                                             ELSE "db_error:Expecting value"])
  /\ UNCHANGED <<storeVars, procVars, envVars>>

\* ---- one byte stream, its writers and its reader
lobbyVars ==
  <<task, sessVars, cacheVars, storeVars, devVars, dlVars, procVars, envVars, reply, pushed,
    readyCnt, curMatch, postHist>>

\* Task t calls send_frame(writer, payload) with a payload of n bytes (_send and
\* _push_event, lobby_server.py:83-88): up to the first await of the call.
wire_send(t, n) ==
  LET payload == Payload(Len(sent) + 1, n)
      r == send_frame(payload)
  IN
  /\ ~writers[t].busy
  /\ ~wire.eof
  /\ Len(sent) < MaxSends
  /\ IF r.raise
     THEN /\ writers' = [writers EXCEPT ![t] = [NoWriter EXCEPT !.res = "FramingError", !.n = n]]
          /\ UNCHANGED <<wire, sent>>
     ELSE /\ wire' = [wire EXCEPT !.bytes = @ \o r.writes[1]]
          /\ sent' = Append(sent, payload)
          /\ writers' = [writers EXCEPT ![t] = [busy |-> TRUE, writes |-> Tail(r.writes),
                                                res |-> "none", n |-> n]]
  /\ UNCHANGED <<reader, lobbyVars, client>>

\* Task t is resumed at an await of send_frame: it does the writes up to the next
\* await, or returns.
wire_resume(t) ==
  /\ writers[t].busy
  /\ IF writers[t].writes = <<>>
     THEN /\ writers' = [writers EXCEPT ![t] = [NoWriter EXCEPT !.res = "ok", !.n = writers[t].n]]
          /\ UNCHANGED wire
     ELSE /\ wire' = [wire EXCEPT !.bytes = @ \o Head(writers[t].writes)]
          /\ writers' = [writers EXCEPT ![t].writes = Tail(@)]
  /\ UNCHANGED <<sent, reader, lobbyVars, client>>

\* writer.close(): the stream ends after the bytes written.
wire_close ==
  /\ ~wire.eof
  /\ \A t \in WireTasks : ~writers[t].busy
  /\ wire' = [wire EXCEPT !.eof = TRUE]
  /\ UNCHANGED <<sent, writers, reader, lobbyVars, client>>

\* recv_frame, lines 49-56, one reader.read of its _read_exact (lines 39-46): the
\* read returns one byte (partial) or all the bytes asked for that the stream
\* holds; at the end of the stream it returns no byte.
recv_read(partial) ==
  LET rd == reader
      avail == ByteLen(wire.bytes) - rd.pos
      k == IF partial THEN 1 ELSE Min(avail, rd.need - ByteLen(rd.buf))
      buf == Write(rd.buf, Take(Drop(wire.bytes, rd.pos), k))
      next == [rd EXCEPT !.buf = <<>>, !.pos = @ + k, !.reads = 0]
  IN
  /\ rd.phase # "stopped"
  /\ IF avail = 0
     THEN /\ wire.eof
          /\ ~partial
          /\ reader' = [rd EXCEPT !.phase = "stopped", !.out = Append(@, ReturnedNone)]
     ELSE /\ partial => rd.reads < MaxReads /\ Min(avail, rd.need - ByteLen(rd.buf)) > 1
          /\ reader' =
               IF ByteLen(buf) < rd.need
               THEN [rd EXCEPT !.buf = buf, !.pos = @ + k,
                               !.reads = IF partial THEN @ + 1 ELSE @]
               ELSE IF rd.phase = "hdr"
               THEN IF BadLength(HDR_unpack(buf))
                    THEN [next EXCEPT !.phase = "stopped",
                                      !.out = Append(@, RaisedFramingError)]
                    ELSE [next EXCEPT !.phase = "body", !.need = HDR_unpack(buf)]
               ELSE [next EXCEPT !.phase = "hdr", !.need = 4,
                                 !.out = Append(@, Returned(buf))]
  /\ UNCHANGED <<wire, sent, writers, lobbyVars, client>>

\* ---- the player client: LobbyClient of src/player/lobby_client.py
\* The threads of the client: the menu (main) thread, the reader thread and the
\* thread _handle_event starts for game_info.
ClientThreads == {"menu", "reader", "launch"}
EventNames == {"game_info", "game_ready", "player_joined"}

\* lobby_server._push_event: {"type": "event", "name": name, ...}
EventFrame(name) == [type |-> "event", name |-> name, of |-> 0]
\* The reply (_ok or _err: no "type" key) to the frame of call id.
ReplyFrame(id) == [type |-> "none", name |-> "none", of |-> id]

\* The client after connect(): the hello frame has been consumed, the reader
\* thread is in recv_json_sync, the menu thread is at its prompt.
NewClient ==
  [out |-> <<>>, inb |-> <<>>, responses |-> <<>>,
   pc |-> [t \in ClientThreads |->
             CASE t = "menu" -> "idle" [] t = "reader" -> "recv" [] t = "launch" -> "off"],
   call |-> [t \in ClientThreads |-> 0],
   nCall |-> 0, nEv |-> 0, ret |-> <<>>]

serverVars == <<wire, sent, writers, reader, lobbyVars>>

\* request, lines 157-160: the frame is sent under the lock, then the thread
\* waits on the queue; the frame is numbered by the call.
request_send(cl, t) ==
  [cl EXCEPT !.nCall = @ + 1, !.call[t] = cl.nCall + 1,
             !.out = Append(@, cl.nCall + 1), !.pc[t] = "wait"]

\* Where thread t goes on after its call of request has returned or raised.
AfterCall(t) == CASE t = "menu" -> "idle" [] t = "reader" -> "recv" [] t = "launch" -> "run"

\* The menu thread or the launch thread (ensure_downloaded, lines 263 and 296)
\* calls request.
request(t) ==
  /\ t \in {"menu", "launch"}
  /\ client.pc[t] = AfterCall(t)
  /\ client.nCall < MaxCalls
  /\ client' = request_send(client, t)
  /\ UNCHANGED serverVars

\* _wait_response inside request, lines 151-155 and 161-164: the head of the queue
\* is what the call returns.
wait_response(t) ==
  /\ client.pc[t] = "wait"
  /\ client.responses # <<>>
  /\ client' = [client EXCEPT !.responses = Tail(@), !.pc[t] = AfterCall(t),
                               !.ret = Append(@, [by |-> t, call |-> client.call[t],
                                                  msg |-> Head(client.responses)])]
  /\ UNCHANGED serverVars

\* queue.Empty after the timeout: request raises timeout_or_disconnect.  The
\* queue stays empty for the whole timeout when the reader thread, the only one
\* that fills it, is itself waiting in request.  The launch thread ends with the
\* exception, the game_ready handler and the menu go on.
wait_timeout(t) ==
  /\ client.pc[t] = "wait"
  /\ client.responses = <<>>
  /\ client.pc["reader"] = "wait"
  /\ client' = [client EXCEPT !.pc[t] = IF t = "launch" THEN "done" ELSE AfterCall(t)]
  /\ UNCHANGED serverVars

\* _reader_loop, lines 134-149, with _handle_event, lines 169-190: one frame is
\* received; a game_info event starts the launch thread, a game_ready event calls
\* do_room_detail and so request on the reader thread, any other event is
\* printed, every other frame is put on the queue.
reader_loop ==
  /\ client.pc["reader"] = "recv"
  /\ client.inb # <<>>
  /\ LET m == Head(client.inb)
         cl == [client EXCEPT !.inb = Tail(@)]
     IN IF m.type = "event"
        THEN CASE m.name = "game_info" ->
                    client' = [cl EXCEPT !.pc["launch"] = IF @ = "off" THEN "run" ELSE @]
               [] m.name = "game_ready" ->
                    /\ client.nCall < MaxCalls
                    /\ client' = request_send(cl, "reader")
               [] OTHER -> client' = cl
        ELSE client' = [cl EXCEPT !.responses = Append(@, m)]
  /\ UNCHANGED serverVars

\* ensure_downloaded returns (the version is installed or the download is
\* complete) and the launch thread ends.
launch_done ==
  /\ client.pc["launch"] = "run"
  /\ client' = [client EXCEPT !.pc["launch"] = "done"]
  /\ UNCHANGED serverVars

\* lobby_server.handle: the connection's frames are handled one at a time, in
\* order, each with one reply frame.
serve ==
  /\ client.out # <<>>
  /\ client' = [client EXCEPT !.out = Tail(@), !.inb = Append(@, ReplyFrame(Head(client.out)))]
  /\ UNCHANGED serverVars

\* lobby_server._push_event to the client's connection, by any task of the lobby.
push_event(name) ==
  /\ client.nEv < MaxEvents
  /\ client' = [client EXCEPT !.nEv = @ + 1, !.inb = Append(@, EventFrame(name))]
  /\ UNCHANGED serverVars

EnsureSites ==
  {"fin_ensure", "leave_ensure", "cl_ensure", "hleave_ensure", "start_ensure",
   "join_ensure", "create_ensure", "watch_ensure1", "watch_ensure2"}

\* A suspended handler resumes with the store's reply.
resume(t) ==
  LET tk == task[t]
      L == [Cur EXCEPT !.task[t].req = "none", !.task[t].got = FALSE]
  IN
  /\ tk.req # "none"
  /\ tk.got
  /\ (tk.pc \in EnsureSites /\ tk.ok) => nObj < MaxObjs
  /\ UNCHANGED <<storeVars, procVars, envVars>>
  /\ Commit(
       CASE tk.pc = "login_db" -> login_done(L, t)
         [] tk.pc = "create_game" -> create_listed(L, t)
         [] tk.pc = "create_latest" -> Issue(L, t, "create_room", "room_create")
         [] tk.pc = "create_room" -> create_roomed(L, t)
         [] tk.pc = "join_get" -> join_got(L, t)
         [] tk.pc = "join_add" -> join_added(L, t)
         [] tk.pc = "leave_remove" -> leave_removed(L, t)
         [] tk.pc = "leave_sethost" -> leave_hostset(L, t)
         [] tk.pc = "leave_delete" -> leave_deleted(L, t)
         [] tk.pc = "fin_log" -> finish_logged(L, t)
         [] tk.pc = "fin_status" -> finish_done(L, t)
         [] tk.pc = "start_get" -> start_got(L, t)
         [] tk.pc = "start_gv" -> start_versioned(L, t)
         [] tk.pc = "start_status" -> start_done(L, t)
         [] tk.pc = "dl_check" -> delist_checked(L, t)
         [] tk.pc = "review_played" -> review_checked(L, t)
         [] tk.pc = "review_upsert" -> ReplyIdle(L, t, "ok")
         [] tk.pc = "dl_set" -> ReplyIdle(L, t, "ok")
         [] tk.pc = "upinit_game" -> upload_init_opened(L, t)
         [] tk.pc = "dlinit_gv" -> download_init_done(L, t)
         [] tk.pc = "rlist" -> room_listed(L, t)
         [] tk.pc = "rdetail_get" -> room_detailed(L, t)
         [] tk.pc = "upfin_game" -> Issue(L, t, "upfin_create", "gv_create")
         [] tk.pc = "upfin_create" -> upload_finish_done(L, t)
         [] tk.pc \in EnsureSites -> ensure_room_loaded(L, t))

\* asyncio.create_subprocess_exec: the child process starts while handle_room_start
\* is suspended; the handler then resumes with the process handle.
spawn_child(c) ==
  /\ task[c].pc = "start_spawn"
  /\ ~task[c].got
  /\ nProc < MaxMatches
  /\ nProc' = nProc + 1
  /\ proc' = [proc EXCEPT ![nProc + 1] = [st |-> "running", port |-> task[c].port]]
  /\ task' = [task EXCEPT ![c].got = TRUE, ![c].k = nProc + 1]
  /\ pushed' = {}
  /\ reply' = NoReply
  /\ UNCHANGED <<sessVars, cacheVars, storeVars, devVars, dlVars, wireVars, envVars, readyCnt,
                 curMatch,
                 postHist>>

\* The spawn of a scenario with one match.
spawn(c) ==
  /\ nProc < MatchStarts
  /\ spawn_child(c)

\* The spawn of a scenario where a room is started again.
respawn(c) ==
  /\ nProc < MaxMatches
  /\ spawn_child(c)

spawned(c) ==
  /\ task[c].pc = "start_spawn"
  /\ task[c].got
  /\ Commit(start_spawned(Cur, c))
  /\ UNCHANGED <<storeVars, procVars, envVars>>

\* The game server process ends: by itself, or on the SIGTERM or SIGKILL of
\* _finish_match.
child_exit(k) ==
  /\ proc[k].st = "running"
  /\ proc' = [proc EXCEPT ![k].st = "exited"]
  /\ pushed' = {}
  /\ reply' = NoReply
  /\ UNCHANGED <<task, sessVars, cacheVars, storeVars, devVars, dlVars, wireVars, nProc, envVars,
                 readyCnt,
                 curMatch,
                 postHist>>

\* asyncio.wait_for(live.game_proc.wait(), timeout=2.0) returns: the child has
\* ended or the two seconds are over.
finish_wake(t) ==
  /\ task[t].pc = "fin_wait"
  /\ Commit(finish_waited(Cur, t))
  /\ UNCHANGED <<storeVars, procVars, envVars>>

\* _watch_game: proc.wait() returns, and later asyncio.sleep(0.5) returns.
watch_game(k) ==
  LET t == Watcher(k) IN
  /\ \/ task[t].pc = "watch_exit" /\ proc[k].st = "exited" /\ Commit(watch_exited(Cur, t))
     \/ task[t].pc = "watch_sleep" /\ Commit(watch_slept(Cur, t))
  /\ UNCHANGED <<storeVars, procVars, envVars>>

\* ---------------------------------------------------------------- specification
\* The developer server holds no upload session and no package is stored.
NoDownloads ==
  /\ DOWNLOADS = [d \in DownloadIds |-> NoDownload]
  /\ nDownload = 0
  /\ dlClient = [c \in Conns |-> NoClient]


NoTraffic ==
  /\ wire = [bytes |-> <<>>, eof |-> FALSE, peer |-> NoPeer]
  /\ sent = <<>>
  /\ writers = [t \in WireTasks |-> NoWriter]
  /\ reader = NewReader
  /\ client = NewClient

NoUploads ==
  /\ UPLOADS = [u \in UploadIds |-> NoUpload]
  /\ nUpload = 0
  /\ tmpFile = [u \in UploadIds |-> NoFile]
  /\ zipFile = [v \in UpVersions |-> NoFile]
  /\ extracted = [v \in UpVersions |-> NoTree]

GameVersions ==
  {[min |-> a, max |-> b] : a \in 1..MaxPlayersBound, b \in 1..MaxPlayersBound}

Empty ==
  /\ task = [t \in Tasks |-> IF t \in Conns THEN Rest("new")
                             ELSE IF t = Dev THEN Rest("idle") ELSE Rest("unborn")]
  /\ byWriter = [c \in Conns |-> 0]
  /\ byPid = [p \in Players |-> 0]
  /\ sessRoom = [s \in Conns \X Players |-> 0]
  /\ ROOMS = [r \in RoomIds |-> 0]
  /\ heap = [o \in Objs |-> NoObj]
  /\ nObj = 0
  /\ storeRoom = [r \in RoomIds |-> NoRow]
  /\ storeMembers = [r \in RoomIds |-> <<>>]
  /\ nRoom = 0
  /\ matchLog = <<>>
  /\ delisted = FALSE
  /\ reviews = [p \in Players |-> 0]
  /\ versions = [v \in UpVersions |-> NoVersion]
  /\ NoUploads
  /\ NoDownloads
  /\ NoTraffic
  /\ proc = [k \in Matches |-> NoProc]
  /\ nProc = 0
  /\ nPost = 0
  /\ nFrames = MaxFrames
  /\ reply = NoReply
  /\ pushed = {}
  /\ readyCnt = [k \in Matches |-> [p \in Players |-> 0]]
  /\ curMatch = [r \in RoomIds |-> 0]
  /\ postHist = [c \in Conns |-> NoPost]

Init ==
  /\ Empty
  /\ gv \in {g \in GameVersions : g.min <= g.max}

Next ==
  \/ \E c \in Conns : connect(c)
  \/ \E c \in Conns : close(c)
  \/ \E c \in Conns, cred \in Players \cup {0} : handle_player_login(c, cred)
  \/ \E c \in Conns : handle_player_logout(c)
  \/ \E c \in Conns : handle_room_create(c)
  \/ \E c \in Conns, r \in RoomIds : handle_room_join(c, r)
  \/ \E c \in Conns : handle_room_leave(c)
  \/ \E c \in Conns, r \in RoomIds \cup {0} : handle_room_start(c, r)
  \/ \E c \in Conns, r \in RoomIds, bad \in BOOLEAN : handle_post_result(c, r, bad)
  \/ \E t \in Tasks : resume(t)
  \/ \E t \in Tasks : dispatch(t)
  \/ \E c \in Conns : spawn(c)
  \/ \E c \in Conns : spawned(c)
  \/ \E k \in Matches : child_exit(k)
  \/ \E t \in Tasks : finish_wake(t)
  \/ \E k \in Matches : watch_game(k)
  \/ handle_game_delist
  \/ \E c \in Conns, rating \in 1..5 : handle_review_upsert(c, rating)
  \/ \E v \in UpVersions, size \in 1..MaxSize, z \in ZipFiles : handle_upload_init(v, size, z)
  \/ \E u \in UploadIds, seq \in 0..MaxSize : \E chunk \in Chunks(u) :
       handle_upload_chunk(u, seq, chunk)
  \/ \E u \in UploadIds : handle_upload_finish(u)

Spec == Init /\ [][Next]_vars

\* ---- sessions: logins, logouts and closes, with rooms to leave on cleanup
SessInit ==
  /\ Empty
  /\ gv = [min |-> 1, max |-> 2]

SessNext ==
  \/ \E c \in Conns : connect(c)
  \/ \E c \in Conns : close(c)
  \/ \E c \in Conns, cred \in Players \cup {0} : handle_player_login(c, cred)
  \/ \E c \in Conns : handle_player_logout(c)
  \/ \E c \in Conns : handle_room_create(c)
  \/ \E t \in Tasks : resume(t)
  \/ \E t \in Tasks : dispatch(t)

SpecSess == SessInit /\ [][SessNext]_vars

\* The lobby after connections `cs` have logged in, connection c as player c, and
\* the players of `ms` (a sequence, player 1 first, or empty) have entered room 1:
\* player 1 by room_create, the others by room_join in the order of `ms`.  No
\* handler is running and the clients may still send n frames.
SettledBase(cs, ms, n, log) ==
  LET hasRoom == ms # <<>> IN
  /\ task = [t \in Tasks |-> IF t \in cs \cup {Dev} THEN Rest("idle")
                             ELSE IF t \in Conns THEN Rest("new") ELSE Rest("unborn")]
  /\ byWriter = [c \in Conns |-> IF c \in cs THEN c ELSE 0]
  /\ byPid = [p \in Players |-> IF p \in cs THEN p ELSE 0]
  /\ sessRoom = [s \in Conns \X Players |->
                   IF s[1] = s[2] /\ s[1] \in SeqToSet(ms) THEN 1 ELSE 0]
  /\ ROOMS = [r \in RoomIds |-> IF hasRoom /\ r = 1 THEN 1 ELSE 0]
  /\ heap = [o \in Objs |->
               IF hasRoom /\ o = 1
               THEN [host |-> 1, status |-> "waiting", token |-> 0, port |-> 0, proc |-> 0,
                     players |-> IF Len(ms) = 1 THEN ms ELSE SortedSeq(SeqToSet(ms))]
               ELSE NoObj]
  /\ nObj = IF hasRoom THEN 1 ELSE 0
  /\ storeRoom = [r \in RoomIds |->
                    IF hasRoom /\ r = 1 THEN [host |-> 1, status |-> "waiting"] ELSE NoRow]
  /\ storeMembers = [r \in RoomIds |-> IF r = 1 THEN ms ELSE <<>>]
  /\ nRoom = IF hasRoom THEN 1 ELSE 0
  /\ matchLog = log
  /\ delisted = FALSE
  /\ reviews = [p \in Players |-> 0]
  /\ NoDownloads
  /\ proc = [k \in Matches |-> NoProc]
  /\ nProc = 0
  /\ nPost = 0
  /\ nFrames = n
  /\ reply = NoReply
  /\ pushed = {}
  /\ readyCnt = [k \in Matches |-> [p \in Players |-> 0]]
  /\ curMatch = [r \in RoomIds |-> 0]
  /\ postHist = [c \in Conns |-> NoPost]

SettledLog(cs, ms, n, log) ==
  /\ SettledBase(cs, ms, n, log)
  /\ NoTraffic
  /\ versions = [v \in UpVersions |-> NoVersion]
  /\ NoUploads

Settled(cs, ms, n) == SettledLog(cs, ms, n, <<>>)

\* ---- rooms: three players, player 1 has created room 1; joins, leaves and a start
RoomInit ==
  /\ Settled({1, 2, 3}, <<1>>, MaxFrames)
  /\ gv \in {[min |-> 2, max |-> 2], [min |-> 1, max |-> 3]}

RoomNext ==
  \/ \E c \in Conns, r \in RoomIds : handle_room_join(c, r)
  \/ \E c \in Conns : handle_room_leave(c)
  \/ \E c \in Conns : handle_room_start(c, 0)
  \/ \E c \in Conns : close(c)
  \/ \E t \in Tasks : resume(t)
  \/ \E t \in Tasks : dispatch(t)
  \/ \E c \in Conns : spawn(c)
  \/ \E c \in Conns : spawned(c)

SpecRoom == RoomInit /\ [][RoomNext]_vars

\* ---- reconnection: player 1 is in room 1; connections close, new ones log in
ReconnInit ==
  /\ Settled({1}, <<1>>, MaxFrames)
  /\ gv = [min |-> 1, max |-> 2]

ReconnNext ==
  \/ \E c \in Conns : connect(c)
  \/ \E c \in Conns : close(c)
  \/ \E c \in Conns, cred \in Players : handle_player_login(c, cred)
  \/ \E c \in Conns : handle_room_create(c)
  \/ \E c \in Conns, r \in RoomIds : handle_room_join(c, r)
  \/ \E t \in Tasks : resume(t)
  \/ \E t \in Tasks : dispatch(t)

SpecReconn == ReconnInit /\ [][ReconnNext]_vars

\* ---- matches: players 1 and 2 are in room 1; starts, results, exits and closes
MatchInit ==
  /\ Settled({1, 2}, <<1, 2>>, MatchFrames)
  /\ gv = [min |-> 2, max |-> 2]

MatchNext ==
  \/ \E c \in Conns : connect(c)
  \/ \E c \in Conns : close(c)
  \/ \E c \in Conns : handle_room_start(c, 0)
  \/ \E c \in Conns, bad \in BOOLEAN : handle_post_result(c, 1, bad)
  \/ \E t \in Tasks : resume(t)
  \/ \E t \in Tasks : dispatch(t)
  \/ \E c \in Conns : spawn(c)
  \/ \E c \in Conns : spawned(c)
  \/ \E k \in Matches : child_exit(k)
  \/ \E t \in Tasks : finish_wake(t)
  \/ \E k \in Matches : watch_game(k)

SpecMatch == MatchInit /\ [][MatchNext]_vars

\* A developer's delist request against a room of two members being started and
\* its match ending by the exit of the child.
DelistInit ==
  /\ Settled({1, 2}, <<1, 2>>, MaxFrames)
  /\ gv = [min |-> 2, max |-> 2]

DelistNext ==
  \/ handle_game_delist
  \/ \E c \in Conns : handle_room_start(c, 0)
  \/ \E c \in Conns : close(c)
  \/ \E t \in Tasks : resume(t)
  \/ \E t \in Tasks : dispatch(t)
  \/ \E c \in Conns : spawn(c)
  \/ \E c \in Conns : spawned(c)
  \/ \E k \in Matches : child_exit(k)
  \/ \E t \in Tasks : finish_wake(t)
  \/ \E k \in Matches : watch_game(k)

SpecDelist == DelistInit /\ [][DelistNext]_vars

\* The exit of the child of a match with no post_result: a room of two members is
\* started, the child ends, members may disconnect.  The event loop runs every
\* task that is ready, the store serves every request, every timeout and sleep
\* ends and a started spawn completes; the clients and the child are free.
\* The room of the scenario: the first Room row of the store.
ExitRoom == 1

ExitInit ==
  /\ Settled({1, 2}, <<1, 2>>, MatchFrames)
  /\ gv = [min |-> 2, max |-> 2]

ExitNext ==
  \/ \E c \in Conns : handle_room_start(c, 0)
  \/ \E c \in Conns : close(c)
  \/ \E t \in Tasks : resume(t)
  \/ \E t \in Tasks : dispatch(t)
  \/ \E c \in Conns : spawn(c)
  \/ \E c \in Conns : spawned(c)
  \/ \E k \in Matches : child_exit(k)
  \/ \E t \in Tasks : finish_wake(t)
  \/ \E k \in Matches : watch_game(k)

\* The next step of task t once what it waits for has happened.
Proceed(t) ==
  \/ resume(t)
  \/ dispatch(t)
  \/ finish_wake(t)
  \/ spawn(t)
  \/ spawned(t)
  \/ \E k \in Matches : t = Watcher(k) /\ watch_game(k)

ExitFair == \A t \in Tasks : WF_vars(Proceed(t))

SpecExit == ExitInit /\ [][ExitNext]_vars /\ ExitFair

\* Uploads: the owner of the game sends game_upload_init, game_upload_chunk and
\* game_upload_finish frames; version 1 of the game is not yet uploaded, or it is
\* committed with a sound package.
SoundZip == [defect |-> "none", version |-> 1]

UploadInit ==
  /\ SettledBase({}, <<>>, UpFrames, <<>>)
  /\ NoTraffic
  /\ gv = [min |-> 2, max |-> 2]
  /\ UPLOADS = [u \in UploadIds |-> NoUpload]
  /\ nUpload = 0
  /\ tmpFile = [u \in UploadIds |-> NoFile]
  /\ \E before \in BOOLEAN :
       /\ versions = [v \in UpVersions |->
                        IF before /\ v = 1
                        THEN [committed |-> TRUE, sizeBytes |-> Len(Bytes(SoundZip)),
                              sha256 |-> sha256(Bytes(SoundZip)), manifest |-> SoundZip,
                              tree |-> SoundZip, upload |-> 0]
                        ELSE NoVersion]
       /\ zipFile = [v \in UpVersions |->
                       IF before /\ v = 1 THEN [exists |-> TRUE, bytes |-> Bytes(SoundZip)]
                       ELSE NoFile]
       /\ extracted = [v \in UpVersions |->
                         IF before /\ v = 1 THEN [exists |-> TRUE, zip |-> SoundZip]
                         ELSE NoTree]

UploadNext ==
  \/ \E v \in UpVersions, size \in 1..MaxSize, z \in ZipFiles : handle_upload_init(v, size, z)
  \/ \E u \in UploadIds, seq \in 0..MaxSize : \E chunk \in Chunks(u) :
       handle_upload_chunk(u, seq, chunk)
  \/ \E u \in UploadIds : handle_upload_finish(u)
  \/ \E t \in Tasks : resume(t)
  \/ \E t \in Tasks : dispatch(t)

SpecUpload == UploadInit /\ [][UploadNext]_vars

\* Guests: player 1 is logged in and has created room 1; connections 2 and 3 are
\* accepted and send room frames without a player_login.
GuestInit ==
  /\ Settled({1}, <<1>>, MaxFrames)
  /\ gv = [min |-> 2, max |-> 2]

GuestNext ==
  \/ \E c \in Conns : connect(c)
  \/ \E c \in Conns : handle_room_list(c)
  \/ \E c \in Conns, r \in RoomIds \cup {0} : handle_room_detail(c, r)
  \/ \E c \in Conns : handle_room_create(c)
  \/ \E c \in Conns, r \in RoomIds : handle_room_join(c, r)
  \/ \E c \in Conns : handle_room_leave(c)
  \/ \E c \in Conns, r \in RoomIds \cup {0} : handle_room_start(c, r)
  \/ \E t \in Tasks : resume(t)
  \/ \E t \in Tasks : dispatch(t)

SpecGuest == GuestInit /\ [][GuestNext]_vars

\* Store failures: players 1 and 2 are in room 1, player 3 is logged in; joins,
\* leaves and a start while requests to the store may fail.
FaultFrames == 2

FaultInit ==
  /\ Settled({1, 2, 3}, <<1, 2>>, FaultFrames)
  /\ gv = [min |-> 2, max |-> 3]

FaultNext ==
  \/ \E c \in Conns, r \in RoomIds : handle_room_join(c, r)
  \/ \E c \in Conns : handle_room_leave(c)
  \/ \E c \in Conns, r \in RoomIds \cup {0} : handle_room_start(c, r)
  \/ \E t \in Tasks : resume(t)
  \/ \E t \in Tasks : dispatch(t)
  \/ \E t \in Tasks, kind \in StoreFailures : db_fault(t, kind)
  \/ \E c \in Conns : spawn(c)
  \/ \E c \in Conns : spawned(c)
  \/ \E k \in Matches : child_exit(k)
  \/ \E t \in Tasks : finish_wake(t)
  \/ \E k \in Matches : watch_game(k)

SpecFault == FaultInit /\ [][FaultNext]_vars

\* Aborted connections: a match of players 1 and 2 as in MatchInit, where
\* connections end by a frame with a bad length or by an exception in handle.
AbortNext ==
  \/ \E c \in Conns : connect(c)
  \/ \E c \in Conns : framing_error(c)
  \/ \E c \in Conns : server_exception(c)
  \/ \E c \in Conns : handle_room_start(c, 0)
  \/ \E c \in Conns, bad \in BOOLEAN : handle_post_result(c, 1, bad)
  \/ \E t \in Tasks : resume(t)
  \/ \E t \in Tasks : dispatch(t)
  \/ \E c \in Conns : spawn(c)
  \/ \E c \in Conns : spawned(c)
  \/ \E k \in Matches : child_exit(k)
  \/ \E t \in Tasks : finish_wake(t)
  \/ \E k \in Matches : watch_game(k)

SpecAbort == MatchInit /\ [][AbortNext]_vars

\* Framing: one stream.  It holds what a peer has written before it closed (a
\* length field n, of whose header h bytes and of whose body m bytes came
\* through), or it is written by three tasks with send_frame; one task reads it
\* with recv_frame.
PeerLengths == {0, 1, 2, MAX_FRAME, MAX_FRAME + 1, 2147483647}
PeerStreams ==
  {s \in [on : {TRUE}, n : PeerLengths, h : 0..4, m : {0, 1, 2, MAX_FRAME}] :
     (s.h < 4 => s.m = 0) /\ s.m <= s.n}
PeerBytes(s) == Take(HDR_pack(s.n), s.h) \o Content(<<"peer", 0>>, s.m)
\* The payload lengths handed to send_frame.
SendLengths == {0, 1, MAX_FRAME, MAX_FRAME + 1}

WireInit ==
  /\ SettledBase({1, 2}, <<>>, 0, <<>>)
  /\ gv = [min |-> 2, max |-> 2]
  /\ versions = [v \in UpVersions |-> NoVersion]
  /\ NoUploads
  /\ sent = <<>>
  /\ writers = [t \in WireTasks |-> NoWriter]
  /\ reader = NewReader
  /\ client = NewClient
  /\ \E s \in PeerStreams \cup {NoPeer} :
       wire = [bytes |-> IF s.on THEN PeerBytes(s) ELSE <<>>, eof |-> s.on, peer |-> s]

WireNext ==
  \/ \E t \in WireTasks, n \in SendLengths : wire_send(t, n)
  \/ \E t \in WireTasks : wire_resume(t)
  \/ wire_close
  \/ \E partial \in BOOLEAN : recv_read(partial)

SpecWire == WireInit /\ [][WireNext]_vars

\* Starts: player 1 has created room 1 (one player is enough for a match),
\* player 2 is logged in; joins, leaves and room_start frames with and without a
\* roomId, disconnects, the match and its end.
StartFrames == 4

StartInit ==
  /\ Settled({1, 2}, <<1>>, StartFrames)
  /\ gv = [min |-> 1, max |-> 2]

StartNext ==
  \/ \E c \in Conns : close(c)
  \/ \E c \in Conns, r \in RoomIds : handle_room_join(c, r)
  \/ \E c \in Conns : handle_room_leave(c)
  \/ \E c \in Conns, r \in {0, 1} : handle_room_start(c, r)
  \/ \E t \in Tasks : resume(t)
  \/ \E t \in Tasks : dispatch(t)
  \/ \E c \in Conns : spawn(c)
  \/ \E c \in Conns : spawned(c)
  \/ \E k \in Matches : child_exit(k)
  \/ \E t \in Tasks : finish_wake(t)
  \/ \E k \in Matches : watch_game(k)

SpecStart == StartInit /\ [][StartNext]_vars

\* Room creation: player 1 has created room 1, players 2 and 3 are logged in;
\* room_create and room_join frames while the developer may delist the game.
CreateInit ==
  /\ Settled({1, 2, 3}, <<1>>, MaxFrames)
  /\ gv = [min |-> 1, max |-> 2]

CreateNext ==
  \/ \E c \in Conns : handle_room_create(c)
  \/ \E c \in Conns, r \in RoomIds : handle_room_join(c, r)
  \/ handle_game_delist
  \/ \E t \in Tasks : resume(t)
  \/ \E t \in Tasks : dispatch(t)

SpecCreate == CreateInit /\ [][CreateNext]_vars

\* Rematch: room 1 with members 1 (host) and 2 is playing its first match, as the
\* room_start of player 1 left it: the child runs on the first game port and the
\* supervisor of the match waits for it.  A post_result and a further room_start
\* may arrive.
RematchFrames == 2

RematchInit ==
  /\ task = [t \in Tasks |->
               IF t \in {1, 2, Dev} THEN Rest("idle")
               ELSE IF t \in Conns THEN Rest("new")
               ELSE IF t = Watcher(1) THEN [Rest("watch_exit") EXCEPT !.rid = 1, !.k = 1]
               ELSE Rest("unborn")]
  /\ byWriter = [c \in Conns |-> IF c \in {1, 2} THEN c ELSE 0]
  /\ byPid = [p \in Players |-> IF p \in {1, 2} THEN p ELSE 0]
  /\ sessRoom = [s \in Conns \X Players |-> IF s[1] = s[2] /\ s[1] \in {1, 2} THEN 1 ELSE 0]
  /\ ROOMS = [r \in RoomIds |-> IF r = 1 THEN 1 ELSE 0]
  /\ heap = [o \in Objs |->
               IF o = 1
               THEN [host |-> 1, players |-> <<1, 2>>, status |-> "playing", token |-> 1,
                     port |-> GAME_PORT_MIN, proc |-> 1]
               ELSE NoObj]
  /\ nObj = 1
  /\ storeRoom = [r \in RoomIds |->
                    IF r = 1 THEN [host |-> 1, status |-> "playing"] ELSE NoRow]
  /\ storeMembers = [r \in RoomIds |-> IF r = 1 THEN <<1, 2>> ELSE <<>>]
  /\ nRoom = 1
  /\ matchLog = <<>>
  /\ delisted = FALSE
  /\ reviews = [p \in Players |-> 0]
  /\ versions = [v \in UpVersions |-> NoVersion]
  /\ NoUploads
  /\ NoDownloads
  /\ NoTraffic
  /\ proc = [k \in Matches |-> IF k = 1 THEN [st |-> "running", port |-> GAME_PORT_MIN]
                                ELSE NoProc]
  /\ nProc = 1
  /\ nPost = 0
  /\ nFrames = RematchFrames
  /\ gv = [min |-> 2, max |-> 2]
  /\ reply = [conn |-> 1, name |-> "started"]
  /\ pushed = {[to |-> u, conn |-> u, name |-> "game_info", room |-> 1, arg |-> 1,
                reason |-> "none"] : u \in {1, 2}}
  /\ readyCnt = [k \in Matches |-> [p \in Players |-> 0]]
  /\ curMatch = [r \in RoomIds |-> IF r = 1 THEN 1 ELSE 0]
  /\ postHist = [c \in Conns |-> NoPost]

RematchNext ==
  \/ \E c \in Conns : handle_room_start(c, 0)
  \/ \E c \in Conns, bad \in BOOLEAN : handle_post_result(c, 1, bad)
  \/ \E t \in Tasks : resume(t)
  \/ \E t \in Tasks : dispatch(t)
  \/ \E c \in Conns : respawn(c)
  \/ \E c \in Conns : spawned(c)
  \/ \E k \in Matches : child_exit(k)
  \/ \E t \in Tasks : finish_wake(t)
  \/ \E k \in Matches : watch_game(k)

SpecRematch == RematchInit /\ [][RematchNext]_vars

\* Two rooms: player 1 has created room 1 (one player is enough for a match),
\* player 2 is logged in and may create a room of its own; both hosts may start.
PortsInit ==
  /\ Settled({1, 2}, <<1>>, MaxFrames)
  /\ gv = [min |-> 1, max |-> 2]

PortsNext ==
  \/ \E c \in Conns : handle_room_create(c)
  \/ \E c \in Conns : handle_room_start(c, 0)
  \/ \E t \in Tasks : resume(t)
  \/ \E t \in Tasks : dispatch(t)
  \/ \E c \in Conns : respawn(c)
  \/ \E c \in Conns : spawned(c)
  \/ \E k \in Matches : child_exit(k)
  \/ \E k \in Matches : watch_game(k)

SpecPorts == PortsInit /\ [][PortsNext]_vars

\* The player client of a logged-in player: menu requests, pushed events, the
\* launch thread.
ClientInit ==
  /\ Settled({1}, <<1>>, 0)
  /\ gv = [min |-> 1, max |-> 2]

ClientNext ==
  \/ \E t \in ClientThreads : request(t)
  \/ \E t \in ClientThreads : wait_response(t)
  \/ \E t \in ClientThreads : wait_timeout(t)
  \/ reader_loop
  \/ launch_done
  \/ serve
  \/ \E name \in EventNames : push_event(name)

SpecClient == ClientInit /\ [][ClientNext]_vars

\* Downloads: version 1 of the game is committed with a package of one of the
\* sizes; the file at its zipPath is the committed one, or the file a later
\* game_upload_finish of version 1 has moved there (developer_server.py:442).  Two
\* players are logged in.
DownloadSizes == {1, 2, MAX_B64_CHUNK, MAX_B64_CHUNK + 1, 2 * MAX_B64_CHUNK + 1}
DownloadLimits == {1, 2, MAX_B64_CHUNK, MAX_B64_CHUNK + 1}

DownloadInit ==
  /\ SettledBase({1, 2}, <<>>, DlFrames, <<>>)
  /\ NoTraffic
  /\ gv = [min |-> 2, max |-> 2]
  /\ UPLOADS = [u \in UploadIds |-> NoUpload]
  /\ nUpload = 0
  /\ tmpFile = [u \in UploadIds |-> NoFile]
  /\ extracted = [v \in UpVersions |-> IF v = 1 THEN [exists |-> TRUE, zip |-> SoundZip]
                                       ELSE NoTree]
  /\ \E s \in DownloadSizes :
       /\ versions = [v \in UpVersions |->
                        IF v = 1
                        THEN [committed |-> TRUE, sizeBytes |-> s,
                              sha256 |-> sha256(Content("committed", s)),
                              manifest |-> SoundZip, tree |-> SoundZip, upload |-> 0]
                        ELSE NoVersion]
       /\ \E f \in {Content("committed", s)} \cup {Content("later", n) : n \in DownloadSizes} :
            zipFile = [v \in UpVersions |-> IF v = 1 THEN [exists |-> TRUE, bytes |-> f]
                                           ELSE NoFile]

DownloadNext ==
  \/ \E c \in Conns, v \in UpVersions, limit \in DownloadLimits :
       handle_store_download_init(c, v, limit)
  \/ \E c \in Conns, d \in DownloadIds \cup {0}, io \in BOOLEAN :
       handle_store_download_chunk(c, d, io)
  \/ \E t \in Tasks : resume(t)
  \/ \E t \in Tasks : dispatch(t)

SpecDownload == DownloadInit /\ [][DownloadNext]_vars

\* Reviews: three logged-in players and a MatchLog of at most one finished match of
\* the game, of any participants.
ReviewInit ==
  \E ps \in SUBSET Players :
    /\ SettledLog({1, 2, 3}, <<>>, MaxFrames,
                  IF ps = {} THEN <<>>
                  ELSE <<[roomId |-> 1, reason |-> "finished", players |-> SortedSeq(ps),
                          match |-> 1]>>)
    /\ gv = [min |-> 2, max |-> 2]

ReviewNext ==
  \/ \E c \in Conns, rating \in 1..5 : handle_review_upsert(c, rating)
  \/ \E t \in Tasks : resume(t)
  \/ \E t \in Tasks : dispatch(t)

SpecReview == ReviewInit /\ [][ReviewNext]_vars

\* ---------------------------------------------------------------- properties
\* The connection is accepted and its task has not ended.
Open(c) == task[c].pc \notin {"new", "closed"}

\* The connections whose SESSIONS_BY_WRITER entry is a session of player p.
HoldersOf(p) == {c \in Conns : byWriter[c] = p}

\* The lobby holds room r as playing.
Playing(r) == ROOMS[r] # 0 /\ heap[ROOMS[r]].status = "playing"

\* The step is a step of the handler running on connection c.
StepOf(c) == task'[c] # task[c]

\* C1: no member is pushed game_ready more than once for one match (the claim's
\* "exactly one game_ready per member and match", whatever finishers interleave).
C1_OneGameReadyPerMatch ==
  \A k \in Matches, p \in Players : readyCnt[k][p] <= 1

\* C2: the finishers that entered _finish_match while the room was playing its
\* match k have written at most one MatchLog row for k between them.
C2_OneRowPerMatch ==
  \A k \in Matches : Cardinality({i \in 1..Len(matchLog) : matchLog[i].match = k}) <= 1

\* C3: in every reachable state the store records at most maxPlayers members for
\* a room.
C3_MembersAtMostMax ==
  \A r \in RoomIds : Len(storeMembers[r]) <= gv.max

\* C4: whenever the lobby marks a room playing, the store's member list of the room
\* has at least minPlayers entries at that moment.
C4_PlayingHasMinPlayers ==
  [][\A r \in RoomIds :
       (Playing(r)' /\ ~Playing(r)) => Len(storeMembers'[r]) >= gv.min]_vars

\* C5: while the lobby holds a room as playing, the store call of a room_join adds
\* no member to it and the store call of a room_leave removes none, also when the
\* handler began while the room was waiting.
C5_NoJoinLeaveWhilePlaying ==
  [][\A c \in Conns :
       (/\ task[c].req \in {"add_member", "remove_member"}
        /\ task[c].cl = "none"
        /\ ~task[c].got
        /\ task'[c].got
        /\ Playing(task[c].rid))
       => storeMembers' = storeMembers]_vars

\* C6: when the store's host of a room changes because the host left and members
\* remain, the new host is the remaining member who joined earliest (the first of
\* the store's member list, which is in joinedAt order).
C6_EarliestJoinedIsNewHost ==
  [][\A r \in RoomIds :
       (/\ storeRoom[r] # NoRow
        /\ storeRoom'[r] # NoRow
        /\ storeRoom'[r].host # storeRoom[r].host
        /\ storeMembers[r] # <<>>)
       => storeRoom'[r].host = storeMembers[r][1]]_vars

\* The step is a step of the handler of a late post_result frame on connection c:
\* the frame's arrival, the store's service of its request, or its resumption.
LateStep(c) ==
  /\ postHist'[c].late
  /\ postHist[c].run \/ postHist'[c].run
  /\ StepOf(c) \/ postHist'[c] # postHist[c]

\* C7: a post_result that arrives for a room already waiting with token, port and
\* process handle cleared has appended exactly one MatchLog row when its handler has
\* returned, and no step of the handler pushes game_ready or changes the room's
\* cached object (status, members, host) or its store row and members.
C7_LatePostResult ==
  /\ [](\A c \in Conns : (postHist[c].late /\ ~postHist[c].run) => postHist[c].rows = 1)
  /\ [][\A c \in Conns :
          LateStep(c) =>
            /\ \A e \in pushed' : e.name # "game_ready"
            /\ UNCHANGED <<cacheVars, storeRoom, storeMembers>>]_vars

\* C8: at every moment at most one connection holds a session of a player id, and
\* a player_login for a player id that has a session on another connection replies
\* already_online and changes no session.
C8_OneSessionPerPlayer ==
  /\ [](\A p \in Players : Cardinality(HoldersOf(p)) <= 1)
  /\ [][\A c \in Conns :
          (/\ task[c].pc = "login_db"
           /\ task[c].got
           /\ task[c].ok
           /\ StepOf(c)
           /\ \E c2 \in Conns \ {c} : byWriter[c2] = task[c].nh)
          => (reply' = [conn |-> c, name |-> "already_online"] /\ UNCHANGED sessVars)]_vars

\* A login was just refused with already_online while another connection holds a
\* session.
C8_Witness ==
  /\ reply.name = "already_online"
  /\ \E p \in Players : byPid[p] \notin {0, reply.conn} /\ byWriter[byPid[p]] = p

\* C9: a player id is a key of SESSIONS_BY_PLAYER_ID if and only if exactly one open
\* connection holds a session for it in SESSIONS_BY_WRITER.
C9_ByPidIffOneHolder ==
  \A p \in Players :
    (byPid[p] # 0) <=> (Cardinality({c \in HoldersOf(p) : Open(c)}) = 1)

\* C10: in every reachable state a player id is a member of at most one room in the
\* store.
C10_OneRoomPerPlayer ==
  \A p \in Players : Cardinality({r \in RoomIds : p \in SeqToSet(storeMembers[r])}) <= 1

\* No handler is running: every connection waits for a frame (or is not open) and
\* every supervisor waits for its child or has ended.
Quiet ==
  \A t \in Tasks : task[t].pc \in {"new", "idle", "closed", "unborn", "done", "watch_exit"}

\* C11: whenever no room operation is in progress, every room of the store has at
\* least one member and its host is one of its members.
C11_RoomHasHostMember ==
  Quiet => \A r \in RoomIds :
             storeRoom[r] # NoRow =>
               (storeMembers[r] # <<>> /\ storeRoom[r].host \in SeqToSet(storeMembers[r]))

\* C12: a game_delist (delisted = true) that arrives while the lobby holds a room of
\* the game as playing does not delist the game while that match is still playing:
\* it is answered game_in_progress.
C12_DelistRefusedWhilePlaying ==
  [][(delisted' /\ ~delisted) =>
       ~(task[Dev].fm # 0 /\
         \E r \in RoomIds : Playing(r) /\ curMatch[r] = task[Dev].fm)]_vars

\* Player p is in the participant list of a MatchLog row of the game.
Participant(p) == \E i \in DOMAIN matchLog : p \in SeqToSet(matchLog[i].players)

\* C13: review_create_or_update is answered not_played exactly when the player is
\* in no participant list of the game's MatchLog rows, and a review is written only
\* for a participant.
C13_ReviewIffParticipant ==
  [][/\ \A c \in Conns :
          (task[c].pc = "review_played" /\ task[c].got /\ StepOf(c)) =>
            ((reply'.name = "not_played") <=> ~Participant(task[c].sp))
     /\ \A p \in Players : reviews'[p] # reviews[p] => Participant(p)]_vars

\* C14: whenever a room goes from playing to waiting, a MatchLog row of that match
\* of the room, listing the room's members, has been written before; game_ready is
\* pushed only after that write.
C14_LogBeforeWaiting ==
  [][\A r \in RoomIds :
       (Playing(r) /\ ROOMS'[r] # 0 /\ heap'[ROOMS'[r]].status = "waiting") =>
         \E i \in DOMAIN matchLog :
           /\ matchLog[i].roomId = r
           /\ matchLog[i].match = curMatch[r]
           /\ matchLog[i].players = heap[ROOMS[r]].players]_vars

\* The child of match k of room r has ended while the lobby holds the room as playing.
ChildGone(r, k) ==
  Playing(r) /\ curMatch[r] = k /\ heap[ROOMS[r]].proc = k /\ proc[k].st = "exited"

\* Match k of room r is finalized by the watcher.
ExitFinalized(r, k) ==
  /\ ROOMS[r] # 0
  /\ LET live == heap[ROOMS[r]] IN
       /\ live.status = "waiting" /\ live.token = 0 /\ live.port = 0 /\ live.proc = 0
       /\ \A p \in SeqToSet(live.players) : byPid[p] # 0 => readyCnt[k][p] = 1
  /\ Cardinality({i \in DOMAIN matchLog :
                    matchLog[i].match = k /\ matchLog[i].reason = "process_exit"}) = 1

\* A member of room r has lost its session.
MemberGone(r) ==
  ROOMS[r] = 0 \/ \E p \in SeqToSet(storeMembers[r]) \cup SeqToSet(heap[ROOMS[r]].players) :
                   byPid[p] = 0

\* C15: if the child of a playing room exits and no post_result arrives, then
\* eventually the room is waiting with token, port and process handle cleared, one
\* MatchLog row with reason process_exit has been written for the match and each
\* connected member has been pushed game_ready once; stated for the matches whose
\* members all stay connected.
C15_ExitFinalizes ==
  \A k \in Matches :
    (ChildGone(ExitRoom, k) /\ ~MemberGone(ExitRoom))
      ~> (ExitFinalized(ExitRoom, k) \/ MemberGone(ExitRoom))

\* Match k of room r is finalized with p and b as participants, b has been pushed
\* game_ready, the room is waiting with b as host and p is no member.
HostDropDone(r, k, p, b) ==
  /\ \E i \in DOMAIN matchLog :
       matchLog[i].match = k /\ {p, b} \subseteq SeqToSet(matchLog[i].players)
  /\ readyCnt[k][b] >= 1
  /\ ROOMS[r] # 0
  /\ heap[ROOMS[r]].status = "waiting"
  /\ heap[ROOMS[r]].host = b
  /\ p \notin SeqToSet(heap[ROOMS[r]].players)
  /\ storeRoom[r].host = b
  /\ p \notin SeqToSet(storeMembers[r])

\* C16: when the connection of the host drops while the room is playing and
\* another member b is connected, then at the end of the cleanup the match has a
\* MatchLog row listing the host and b, b has been pushed game_ready, the room is
\* waiting, b is its host and the host that dropped is no member.
C16_HostDropFinalizes ==
  [][\A c \in Conns :
       (task[c].hd /\ task[c].pc # "closed" /\ task'[c].pc = "closed") =>
         \A b \in Players \ {task[c].sp} :
           (byPid'[b] # 0 /\ sessRoom'[<<byPid'[b], b>>] = task[c].rid) =>
             HostDropDone(task[c].rid, task[c].fm, task[c].sp, b)']_vars

\* C17: a GameVersion row is committed only for an upload whose received size and
\* hash equal the declared ones, whose archive has no unsafe entry, whose manifest
\* is valid and names the declared gameId and version, and whose two entrypoint
\* files exist.
C17_CommitOnlySound ==
  \A v \in UpVersions :
    versions[v].committed =>
      LET z == versions[v].manifest IN
        /\ z.defect = "none"
        /\ z.version = v
        /\ versions[v].sizeBytes = Len(Bytes(z))
        /\ versions[v].sha256 = sha256(Bytes(z))

\* C18: the file at the zipPath and the tree at the extractedPath of a committed
\* GameVersion row stay as they were committed: the SHA-256 of the file equals
\* the row's sha256.
C18_StoredPackageFixed ==
  \A v \in UpVersions :
    versions[v].committed =>
      /\ zipFile[v].exists
      /\ sha256(zipFile[v].bytes) = versions[v].sha256
      /\ extracted[v] = [exists |-> TRUE, zip |-> versions[v].tree]

\* C19: a game_upload_init for a version that has a GameVersion row is rejected
\* and opens no upload session.
C19_InitRejectsCommittedVersion ==
  [][(task[Dev].pc = "upinit_game" /\ task[Dev].got /\ StepOf(Dev)
      /\ versions[task[Dev].up.version].committed)
     => (UPLOADS' = UPLOADS /\ reply'.name # "upload_opened")]_vars

\* The error replies of game_upload_chunk and game_upload_finish after init.
UploadFailures ==
  {"bad_seq", "bad_base64", "empty_chunk", "too_large", "size_mismatch", "hash_mismatch",
   extract_failed("[Errno 2] No such file or directory"),
   extract_failed("File is not a zip file"), extract_failed("unsafe_zip_entry"),
   "missing_manifest", "bad_manifest", "manifest_gameId_mismatch",
   "manifest_version_mismatch", "missing_server_entry", "missing_client_entry",
   "version_exists"}

\* C20: a game_upload_chunk or game_upload_finish of upload u that fails after
\* init removes the session of u from UPLOADS and deletes its temp file.
C20_FailureClosesUpload ==
  [][\A u \in UploadIds :
       (/\ UPLOADS[u].open
        /\ reply'.name \in UploadFailures
        /\ \/ \E seq \in 0..MaxSize : \E chunk \in Chunks(u) : handle_upload_chunk(u, seq, chunk)
           \/ handle_upload_finish(u)
           \/ task[Dev].pc = "upfin_create" /\ task[Dev].up.id = u /\ StepOf(Dev))
       => (~UPLOADS'[u].open /\ ~tmpFile'[u].exists)]_vars

\* C21: a game_upload_chunk of an open upload u whose seq is not the next expected
\* seq of u is answered bad_seq and leaves the received count, the next expected
\* seq, the hash state and the temp file of u as they were; a chunk that carries
\* the expected seq, decodes to at least one byte and fits the declared size is
\* accepted: its bytes are appended and the expected seq moves on by one.
C21_BadSeqKeepsUpload ==
  [][\A u \in UploadIds, seq \in 0..MaxSize : \A chunk \in Chunks(u) :
       (handle_upload_chunk(u, seq, chunk) /\ UPLOADS[u].open) =>
         /\ seq # UPLOADS[u].next_seq =>
              /\ reply'.name = "bad_seq"
              /\ UPLOADS' = UPLOADS
              /\ tmpFile' = tmpFile
         /\ (/\ seq = UPLOADS[u].next_seq
             /\ chunk.b64
             /\ chunk.data # <<>>
             /\ UPLOADS[u].received + Len(chunk.data) <= UPLOADS[u].expected_size) =>
              /\ reply'.name = "chunk_ok"
              /\ UPLOADS'[u].next_seq = seq + 1
              /\ UPLOADS'[u].received = UPLOADS[u].received + Len(chunk.data)
              /\ UPLOADS'[u].hasher = UPLOADS[u].hasher \o chunk.data
              /\ tmpFile'[u].bytes = tmpFile[u].bytes \o chunk.data]_vars

\* A chunk out of sequence has just been refused for an upload that has received
\* a part of its bytes.
C21_Witness ==
  /\ reply.name = "bad_seq"
  /\ \E u \in UploadIds :
       /\ UPLOADS[u].open
       /\ UPLOADS[u].received > 0
       /\ UPLOADS[u].received < UPLOADS[u].expected_size

\* C22: a game_upload_finish of an upload of version v whose archive has an entry
\* with an absolute path or a '..' part, when nothing is stored for v, is answered
\* unsafe_zip_entry, leaves no package file and no extracted tree for v under the
\* upload root, and creates no GameVersion row.
C22_UnsafeEntryLeavesNothing ==
  [][\A u \in UploadIds :
       (/\ handle_upload_finish(u)
        /\ UPLOADS[u].open
        /\ UPLOADS[u].received = UPLOADS[u].expected_size
        /\ sha256(UPLOADS[u].hasher) = UPLOADS[u].expected_sha256
        /\ tmpFile[u].exists
        /\ Unzip(tmpFile[u].bytes).defect = "unsafe_entry"
        /\ ~zipFile[UPLOADS[u].version].exists
        /\ ~extracted[UPLOADS[u].version].exists)
       => /\ reply'.name = "unsafe_zip_entry"
          /\ ~zipFile'[UPLOADS[u].version].exists
          /\ ~extracted'[UPLOADS[u].version].exists
          /\ versions' = versions]_vars

\* C23: for the package of the committed version a client downloads, with a limit
\* of at least 1, starting at offset 0 and moving the offset on by the length of
\* each chunk: every chunk has at most min(limit, 32768) bytes; done is returned
\* by the chunk that reaches sizeBytes and by no earlier one; and when done is
\* returned the bytes received are, in order, the bytes of the package: they have
\* the size and the SHA-256 of the GameVersion row.
C23_DownloadDeliversPackage ==
  \A c \in Conns :
    LET cl == dlClient[c] IN
    (cl.id # 0 /\ cl.limit >= 1) =>
      /\ cl.last <= Min(cl.limit, MAX_B64_CHUNK)
      /\ cl.n > 0 => (cl.done <=> cl.offset >= cl.size)
      /\ cl.done => /\ ByteLen(cl.tmp_zip) = cl.size
                     /\ sha256(cl.tmp_zip) = cl.sha

\* C24: a store_download_chunk of an open download d whose read of the package
\* file fails removes d from DOWNLOADS.
C24_ReadFailureClosesDownload ==
  [][\A c \in Conns, d \in DownloadIds :
       (handle_store_download_chunk(c, d, TRUE) /\ DOWNLOADS[d].open)
         => ~DOWNLOADS'[d].open]_vars

\* The replies that carry rows of rooms.
RoomData == {"rooms", "room"}

\* C30: a room_list, room_detail, room_create, room_join, room_leave or room_start
\* frame on a connection that has no session is answered not_logged_in and
\* changes neither the sessions, the cached rooms nor the store; and no handler
\* of such a connection replies with room data.
C30_RoomFramesNeedLogin ==
  [][\A c \in Conns :
       byWriter[c] = 0 =>
         /\ (\/ handle_room_list(c)
             \/ \E r \in RoomIds \cup {0} : handle_room_detail(c, r)
             \/ handle_room_create(c)
             \/ \E r \in RoomIds : handle_room_join(c, r)
             \/ handle_room_leave(c)
             \/ \E r \in RoomIds \cup {0} : handle_room_start(c, r))
            => /\ reply'.name = "not_logged_in"
               /\ UNCHANGED <<sessVars, cacheVars, storeVars>>
         /\ StepOf(c) => ~(reply'.conn = c /\ reply'.name \in RoomData)]_vars

\* C25: every event pushed follows its committed store write: game_info of a room
\* is pushed when the store holds the room as playing, player_joined of p when p
\* is a member of the room in the store, player_left of p when p is no member of
\* it, host_changed when the store holds the new host as the room's host; none
\* of them is pushed when the write has failed.
C25_EventsFollowStoreWrites ==
  [][\A e \in pushed' :
       /\ e.name = "game_info" => storeRoom'[e.room].status = "playing"
       /\ e.name = "player_joined" => e.arg \in SeqToSet(storeMembers'[e.room])
       /\ e.name = "player_left" => e.arg \notin SeqToSet(storeMembers'[e.room])
       /\ e.name = "host_changed" => storeRoom'[e.room].host = e.arg]_vars

\* C26: db_call never raises: whatever way the store fails on a request, the
\* handler that awaits it is resumed at its await with a value of status ERR whose
\* error is db_error:<detail> or db_no_response.
C26_DbCallNeverRaises ==
  [][\A t \in Tasks, kind \in StoreFailures :
       db_fault(t, kind) =>
         /\ task'[t].pc = task[t].pc
         /\ task'[t].got
         /\ ~task'[t].ok
         /\ task'[t].err \in {"db_no_response", "db_error:Expecting value"}]_vars

\* C28: when a lobby connection gets a frame with an out-of-range length, or its
\* handler raises, the session of the connection is removed from both session
\* maps; and when the cleanup of a session that was in room r ends, the player is
\* no member of r, in the lobby and in the store, and the match that was playing
\* in r when the cleanup came to it is no longer playing.
C28_AbortRunsCleanup ==
  [][\A c \in Conns :
       /\ (framing_error(c) \/ server_exception(c)) =>
            /\ byWriter'[c] = 0
            /\ \A p \in Players : byWriter[c] = p => byPid'[p] = 0
       /\ (/\ task[c].cl = "close"
           /\ task[c].rid # 0
           /\ task[c].pc # "closed"
           /\ task'[c].pc = "closed") =>
            LET r == task[c].rid
                p == task[c].sp
            IN /\ p \notin SeqToSet(storeMembers'[r])
               /\ ROOMS'[r] # 0 =>
                    /\ p \notin SeqToSet(heap'[ROOMS'[r]].players)
                    /\ task[c].fm # 0 =>
                         ~(heap'[ROOMS'[r]].status = "playing" /\ curMatch'[r] = task[c].fm)]_vars

\* What recv_frame gives on the stream s of a peer that has closed.
PeerOutcome(s) ==
  IF s.h < 4 THEN <<ReturnedNone>>
  ELSE IF s.n = 0 \/ s.n > MAX_FRAME THEN <<RaisedFramingError>>
  ELSE IF s.m < s.n THEN <<ReturnedNone>>
  ELSE <<Returned(Content(<<"peer", 0>>, s.n)), ReturnedNone>>

\* C27: send_frame refuses an empty payload and a payload of more than 65536
\* bytes and accepts the others; recv_frame on the bytes written by send_frame
\* returns the payloads sent, each as it was sent (and None only at the end of
\* the stream); on the stream of a peer recv_frame raises FramingError for a
\* length field of 0 or above 65536 and returns None when the stream ends inside
\* a header or inside a body.
C27_FramingRoundTrip ==
  /\ \A i \in 1..Len(sent) : ByteLen(sent[i]) >= 1 /\ ByteLen(sent[i]) <= MAX_FRAME
  /\ \A t \in WireTasks :
       /\ writers[t].res = "FramingError" => (writers[t].n = 0 \/ writers[t].n > MAX_FRAME)
       /\ (writers[t].busy \/ writers[t].res = "ok") =>
            (writers[t].n >= 1 /\ writers[t].n <= MAX_FRAME)
  /\ ~wire.peer.on =>
       \A i \in 1..Len(reader.out) :
         IF reader.out[i].kind = "payload"
         THEN i <= Len(sent) /\ reader.out[i].bytes = sent[i]
         ELSE reader.out[i] = ReturnedNone /\ i = Len(sent) + 1
  /\ (wire.peer.on /\ reader.phase = "stopped") => reader.out = PeerOutcome(wire.peer)

\* A payload of 65536 bytes has been sent and received, and a payload of 65537
\* bytes has been refused.
C27_Witness ==
  /\ \E i \in 1..Len(reader.out) :
       reader.out[i].kind = "payload" /\ ByteLen(reader.out[i].bytes) = MAX_FRAME
  /\ \E t \in WireTasks : writers[t].res = "FramingError" /\ writers[t].n = MAX_FRAME + 1

RECURSIVE Frames(_)
\* The bytes of the frames of the payloads s, one frame after the other.
Frames(s) ==
  IF s = <<>> THEN <<>> ELSE HDR_pack(ByteLen(s[1])) \o s[1] \o Frames(Tail(s))

\* C29: whatever tasks write frames to one connection, the bytes on the stream
\* are the frames one after the other, in the order in which send_frame was
\* called: each 4-byte header is followed at once by the whole body of its frame.
C29_FramesDoNotInterleave ==
  ~wire.peer.on =>
    /\ Len(wire.bytes) <= Len(Frames(sent))
    /\ wire.bytes = SubSeq(Frames(sent), 1, Len(wire.bytes))

\* Two tasks are suspended in send_frame on the stream at once, a third frame is
\* on the stream as well.
C29_Witness ==
  /\ Len(sent) = 3
  /\ \E t1 \in WireTasks, t2 \in WireTasks :
       t1 # t2 /\ writers[t1].busy /\ writers[t2].busy

\* The status, token and port the lobby has for room r: of its cached object, or,
\* for a room it has not cached, the status of the store's row and no token or port.
RoomView(r) ==
  IF ROOMS[r] # 0
  THEN <<heap[ROOMS[r]].status, heap[ROOMS[r]].token, heap[ROOMS[r]].port>>
  ELSE <<storeRoom[r].status, 0, 0>>

\* The room a room_start frame with roomId r (0: none) on connection c is about.
StartRoom(c, r) == IF r # 0 THEN r ELSE sessRoom[<<c, byWriter[c]>>]

\* C31: a room_start of a logged-in player who is not the host of the room is
\* answered not_host, a room_start of the host while the child of the room is
\* running is answered already_playing; the step that sends either reply spawns
\* no process, pushes no game_info and leaves status, token and port of every
\* room as they were.
C31_StartRefusedChangesNothing ==
  [][\A c \in Conns :
       /\ \A r \in RoomIds \cup {0} :
            (/\ handle_room_start(c, r)
             /\ byWriter[c] # 0
             /\ StartRoom(c, r) # 0
             /\ ROOMS[StartRoom(c, r)] # 0)
            => LET live == heap[ROOMS[StartRoom(c, r)]] IN
                 /\ live.host # byWriter[c] => reply'.name = "not_host"
                 /\ (/\ live.host = byWriter[c]
                     /\ live.status = "playing"
                     /\ live.proc # 0
                     /\ proc[live.proc].st = "running") => reply'.name = "already_playing"
       /\ (resume(c) /\ task[c].pc = "start_ensure" /\ task[c].ok
            /\ task[c].rhost # task[c].sp) => reply'.name = "not_host"
       /\ (reply'.conn = c /\ reply'.name \in {"not_host", "already_playing"}) =>
            /\ UNCHANGED procVars
            /\ \A e \in pushed' : e.name # "game_info"
            /\ \A r \in RoomIds : RoomView(r)' = RoomView(r)]_vars

\* C32: a room_create on a session that is in a room is answered already_in_room,
\* a room_create whose game the store reports as delisted is answered
\* game_delisted, and neither creates a room.  The room the store creates for a
\* room_create is waiting, its host is the creator and the creator is its only
\* member; the reply of a successful room_create finds the room waiting with the
\* creator as host and member, and sets the room of the creator's session to it.
C32_CreateContract ==
  [][\A c \in Conns :
       /\ (/\ handle_room_create(c)
           /\ byWriter[c] # 0
           /\ sessRoom[<<c, byWriter[c]>>] # 0)
          => reply' = [conn |-> c, name |-> "already_in_room"]
       /\ (dispatch(c) /\ task[c].pc = "create_game")
          => (task'[c].rstatus = "delisted" <=> delisted)
       /\ (resume(c) /\ task[c].pc = "create_game" /\ task[c].rstatus = "delisted")
          => reply' = [conn |-> c, name |-> "game_delisted"]
       /\ (reply'.conn = c /\ reply'.name \in {"already_in_room", "game_delisted"})
          => /\ UNCHANGED <<storeVars, cacheVars, sessVars>>
             /\ task'[c].req = "none"
       /\ (dispatch(c) /\ task[c].req = "room_create")
          => LET rid == nRoom' IN
               /\ rid = nRoom + 1
               /\ storeRoom[rid] = NoRow
               /\ storeRoom'[rid] = [host |-> byWriter[c], status |-> "waiting"]
               /\ storeMembers'[rid] = <<byWriter[c]>>
               /\ task'[c].rid = rid
       /\ (reply'.conn = c /\ reply'.name = "created")
          => LET rid == task[c].rid
                 p == byWriter[c]
             IN /\ sessRoom'[<<c, p>>] = rid
                /\ storeRoom'[rid] = [host |-> p, status |-> "waiting"]
                /\ p \in SeqToSet(storeMembers'[rid])
                /\ ROOMS'[rid] # 0
                /\ heap'[ROOMS'[rid]].host = p
                /\ heap'[ROOMS'[rid]].status = "waiting"
                /\ p \in SeqToSet(heap'[ROOMS'[rid]].players)]_vars

\* A room_create has just been refused for the delisted game, after another
\* room_create had created room 2 for a player who is now in it, while player 1
\* is in room 1.
C32_Witness ==
  /\ reply.name = "game_delisted"
  /\ delisted
  /\ nRoom = 2
  /\ \E c \in Conns : byWriter[c] # 0 /\ sessRoom[<<c, byWriter[c]>>] = 2
                        /\ storeRoom[2].host = byWriter[c]

\* C33: the Room.get of a room_join returns the member list of the store; when it
\* lists the player, the handler replies joined and sets the room of the session,
\* makes no further store request (so writes nothing to the store, as often as the
\* frame is repeated), pushes no event and leaves the cached room as it is; and
\* the store never holds two membership rows of one player for one room.
C33_RejoinIsIdempotent ==
  /\ [](\A r \in RoomIds : Cardinality(SeqToSet(storeMembers[r])) = Len(storeMembers[r]))
  /\ [][\A c \in Conns :
          /\ (dispatch(c) /\ task[c].pc = "join_get")
             => /\ task'[c].players = storeMembers[task[c].rid]
                /\ UNCHANGED storeVars
          /\ (/\ resume(c)
              /\ task[c].pc = "join_get"
              /\ task[c].ok
              /\ task[c].sp \in SeqToSet(task[c].players))
             => /\ reply' = [conn |-> c, name |-> "joined"]
                /\ sessRoom'[<<c, task[c].sp>>] = task[c].rid
                /\ task'[c].req = "none"
                /\ pushed' = {}
                /\ UNCHANGED <<storeVars, cacheVars>>]_vars

\* A player whose earlier connection is still being cleaned up (its
\* Room.remove_member is not served yet, the store lists the player in room 1)
\* has logged in again and has just been answered joined for room 1.
C33_Witness ==
  \E c \in Conns, c2 \in Conns, p \in Players :
    /\ c # c2
    /\ reply = [conn |-> c, name |-> "joined"]
    /\ byWriter[c] = p
    /\ sessRoom[<<c, p>>] = 1
    /\ p \in SeqToSet(storeMembers[1])
    /\ task[c2].sp = p /\ task[c2].req = "remove_member" /\ ~task[c2].got

\* C34: the supervisor of match k finalizes no other match than k and waits for
\* the end of (after it has sent the termination signal to) no other child than
\* the child of k: when a step of the supervisor takes a room from playing to
\* waiting, the room was playing match k, and when the supervisor is suspended in
\* the wait of line 598, the process handle of the room is the child of k.
C34_SupervisorOwnMatch ==
  [][\A k \in Matches :
       StepOf(Watcher(k)) =>
         /\ task'[Watcher(k)].pc = "fin_wait" => heap'[task'[Watcher(k)].live].proc = k
         /\ \A r \in RoomIds : (Playing(r) /\ ~Playing(r)') => curMatch[r] = k]_vars

\* C35: no two rooms that the lobby holds as playing at the same time have the
\* same game port.
C35_PlayingPortsDistinct ==
  \A r1 \in RoomIds, r2 \in RoomIds :
    (r1 # r2 /\ Playing(r1) /\ Playing(r2)) =>
      heap[ROOMS[r1]].port # heap[ROOMS[r2]].port

\* C36: in every state, a cached room that is waiting has no token, no game port
\* and no process handle, and a cached room with a token or a process handle is
\* playing; the step that takes a cached room out of playing leaves it with all
\* three unset.
C36_TokenPortProcOnlyWhilePlaying ==
  /\ [](\A r \in RoomIds :
          ROOMS[r] # 0 =>
            LET live == heap[ROOMS[r]] IN
              /\ live.status = "waiting" => (live.token = 0 /\ live.port = 0 /\ live.proc = 0)
              /\ (live.token # 0 \/ live.proc # 0) => live.status = "playing")
  /\ [][\A r \in RoomIds :
          (Playing(r) /\ ~Playing(r)' /\ ROOMS'[r] # 0) =>
            LET live == heap'[ROOMS'[r]] IN
              live.status = "waiting" /\ live.token = 0 /\ live.port = 0 /\ live.proc = 0]_vars

\* Match 1 of room 1 has been finalized (its members were pushed game_ready) and
\* the room is playing match 2 with its own token and process handle.
C36_Witness ==
  /\ \E p \in Players : readyCnt[1][p] >= 1
  /\ Playing(1)
  /\ curMatch[1] = 2
  /\ heap[ROOMS[1]].token = 2
  /\ heap[ROOMS[1]].proc = 2

\* C37: whenever no room operation is in progress, every room the lobby caches has
\* the members of the store's member list and the host of the store's row.
C37_CacheEqualsStore ==
  Quiet =>
    \A r \in RoomIds :
      ROOMS[r] # 0 =>
        /\ SeqToSet(heap[ROOMS[r]].players) = SeqToSet(storeMembers[r])
        /\ heap[ROOMS[r]].host = storeRoom[r].host

\* A session object of player p made on connection c that either index still holds.
LiveSession(c, p) == byWriter[c] = p \/ byPid[p] = c

\* C38: whenever no operation is in progress, every session whose room is r
\* belongs to a player the store lists as a member of r, and every member the
\* store lists for a room r has a session whose room is r.
C38_SessionsMatchMembers ==
  Quiet =>
    /\ \A c \in Conns, p \in Players, r \in RoomIds :
         (LiveSession(c, p) /\ sessRoom[<<c, p>>] = r) =>
           p \in SeqToSet(storeMembers[r])
    /\ \A r \in RoomIds, p \in Players :
         p \in SeqToSet(storeMembers[r]) =>
           \E c \in Conns : LiveSession(c, p) /\ sessRoom[<<c, p>>] = r

\* C39: a player passes the review eligibility check only through a MatchLog row
\* of a room that has been playing: a post_result for a room that was never
\* started makes no player eligible.
C39_EligibleOnlyAfterPlaying ==
  \A p \in Players :
    has_player_played(p) =>
      \E i \in DOMAIN matchLog :
        /\ Like(results_json(matchLog[i].players), <<"\"userId\": ">> \o Digits(UserId(p)))
        /\ curMatch[matchLog[i].roomId] # 0

\* C40: every call of LobbyClient.request that returns, returns the server's
\* reply to the frame this call sent: never an event, never the reply to the
\* frame of another call.
C40_RequestGetsOwnReply ==
  \A i \in DOMAIN client.ret : client.ret[i].msg = ReplyFrame(client.ret[i].call)

====
